---- MODULE Spec2Model ----
(***************************************************************************)
(* Model of the BubbleBeats document mutator (src/src/hooks/useScript.ts)  *)
(* and the timing functions it uses (src/src/utils/timing.ts).             *)
(*                                                                         *)
(* Conventions                                                             *)
(*  - a JavaScript string is a sequence of one-character strings;          *)
(*  - a duration is an integer number of tenths of a second (0.5 s = 5);   *)
(*  - an optional field (visualSpan?, manualDuration?) is a set: {} when   *)
(*    the field is undefined, {v} when it holds v;                         *)
(*  - row indices are 0-based as in the source; At(pairs, i) reads row i.  *)
(***************************************************************************)
EXTENDS Integers, Sequences, FiniteSets, TLC

VARIABLES
  script,       \* the state of useScript: the current Script value
  nextId,       \* the value the next generateId() call returns
  lastOp,       \* history: the mutator call that produced script
  prevScript,   \* history: the script that call was applied to
  prevOp,       \* history: the call before lastOp
  prevScript2,  \* history: the script prevOp was applied to
  steps,        \* the number of calls made so far
  editingPairId,\* BubbleTimeline: useState<string | null>(null), as a set
  lastEvent,    \* history: the last user event of the timeline and its effect
  timeline,     \* BubbleTimeline props: [pairs, totalDuration]
  containerHeight, \* BubbleTimeline: useState(600), set by the ResizeObserver
  naturalHeight,   \* BubbleTimeline: useState(0), set by the ResizeObserver
  zoom,         \* settings.zoom, in hundredths
  db,           \* Convex table "scripts": document id -> document
  dbNextId,     \* the id the next ctx.db.insert returns
  dbCalls,      \* the number of Convex function calls so far (the clock)
  lastCall,     \* history: the last Convex call, the table before it, its result
  exportedFile, \* the markdown file last downloaded: {} or {its characters}
  currentFileId,\* useStorageProvider: useState<string | null>, as a set
  scriptCache,  \* useStorageProvider: scriptCache.current, file id -> Script
  saveTimers,   \* useStorageProvider: saveTimers.current, file id -> pending save
  saveLog,      \* history: file id -> [script, call] of the last saveFile call for it
  saveCalls,    \* history: the number of saveFile calls so far
  fileOps,      \* the number of file operations (switch, new script) so far
  changedUnder, \* history: the current file id when the script last changed, as a set
  docFile,      \* history: the file the editor's document was created as or loaded
                \* from, as a set
  savedDoc,     \* history: file id -> docFile at the last saveFile call for that id
  cacheStale,   \* the server's list changed and the cache-sync effect has not run
  saveTimer,    \* App: saveTimer.current, {} or {the file id its callback saves}
  outbox,       \* Convex client: the mutations issued and not yet executed
  received,     \* server: file id -> [script, call], the document and the number of
                \* the saveFile call it came from (0: as stored or created)
  convexScripts,\* useStorageProvider: useQuery(api.scripts.list), {} while loading or
                \* {the listed files, [id, updatedAt]}
  bootstrapped, \* App: bootstrapped.current
  bootOutcome   \* history: what the bootstrap effect found and did

scriptVars == <<script, nextId, lastOp, prevScript, prevOp, prevScript2, steps>>
editVars == <<editingPairId, lastEvent>>
layoutVars == <<timeline, containerHeight, naturalHeight, zoom>>
dbVars == <<db, dbNextId, dbCalls, lastCall>>
fileVars == <<exportedFile>>
saveVars ==
  <<currentFileId, scriptCache, saveTimers, saveLog, saveCalls, fileOps, changedUnder,
    docFile, savedDoc, cacheStale, saveTimer, outbox, received>>
bootVars == <<convexScripts, bootstrapped, bootOutcome>>
vars == <<scriptVars, editVars, layoutVars, dbVars, fileVars, saveVars, bootVars>>

(***************************************************************************)
(* Bounds of the model                                                     *)
(***************************************************************************)
MaxSteps == 2

(***************************************************************************)
(* Program constants                                                       *)
(***************************************************************************)
WORDS_PER_MINUTE == 150
\* Math.max(estimateDuration(content), 0.5): 0.5 s in tenths
MinTextDuration == 5
\* createFillerBubble(duration = 1): 1 s in tenths
DefaultFillerDuration == 10
\* updateBubbleDuration: min = filler text ? 1 : 0.5, in tenths
FillerMinDuration == 10
OtherMinDuration == 5
DefaultTotalDuration == 120

Max(a, b) == IF a >= b THEN a ELSE b
Min(a, b) == IF a <= b THEN a ELSE b

(***************************************************************************)
(* JavaScript string primitives                                            *)
(***************************************************************************)
IsWs(c) == c \in {" ", "\n"}

\* String.prototype.slice(start, end): negative indices count from the end,
\* indices are clamped to [0, length], empty when start >= end.
SliceIndex(len, i) == IF i < 0 THEN Max(len + i, 0) ELSE Min(i, len)

Slice(s, start, end) ==
  LET from == SliceIndex(Len(s), start)
      to   == SliceIndex(Len(s), end)
  IN  IF from >= to THEN <<>> ELSE SubSeq(s, from + 1, to)

\* slice(start) with the end omitted
SliceFrom(s, start) == Slice(s, start, Len(s))

\* String.prototype.trim()
Trim(s) ==
  LET nonWs == {i \in 1..Len(s) : ~IsWs(s[i])}
  IN  IF nonWs = {} THEN <<>>
      ELSE LET first == CHOOSE i \in nonWs : \A j \in nonWs : i <= j
               last  == CHOOSE i \in nonWs : \A j \in nonWs : i >= j
           IN  SubSeq(s, first, last)

\* [a, b].filter(Boolean).join('\n')
JoinNonEmpty(a, b) ==
  IF a = <<>> THEN b
  ELSE IF b = <<>> THEN a
  ELSE a \o <<"\n">> \o b

\* Math.round(num / den) for den > 0: halves round towards +infinity. The
\* quotient is exact here; the source rounds a double-precision product.
RoundDiv(num, den) == (2 * num + den) \div (2 * den)

(***************************************************************************)
(* src/src/utils/timing.ts                                                 *)
(***************************************************************************)
\* trimmed.split(/\s+/).length: the number of maximal runs of non-whitespace
\* mutant: every whitespace character separates two words
countWords_SplitsOnEachSpace(text) ==
  LET trimmed == Trim(text)
  IN  IF trimmed = <<>> THEN 0
      ELSE Cardinality({i \in 1..Len(trimmed) : IsWs(trimmed[i])}) + 1

countWords(text) ==
  LET trimmed == Trim(text)
  IN  IF trimmed = <<>> THEN 0
      ELSE Cardinality({i \in 1..Len(trimmed) :
                          /\ ~IsWs(trimmed[i])
                          /\ (i = 1 \/ IsWs(trimmed[i - 1]))})

\* (words / WORDS_PER_MINUTE) * 60 seconds, in tenths of a second
estimateDuration(text) == (countWords(text) * 60 * 10) \div WORDS_PER_MINUTE

(***************************************************************************)
(* Data model (src/src/types/script.ts) and constructors                   *)
(***************************************************************************)
\* 'Untitled Script' and 'Imported Script', as character sequences
UntitledScript ==
  <<"U", "n", "t", "i", "t", "l", "e", "d", " ", "S", "c", "r", "i", "p", "t">>
ImportedScriptTitle ==
  <<"I", "m", "p", "o", "r", "t", "e", "d", " ", "S", "c", "r", "i", "p", "t">>

Undefined == {}
Some(v) == {v}
\* x ?? d
OrElse(opt, d) == IF opt = {} THEN d ELSE CHOOSE v \in opt : TRUE

At(pairs, i) == pairs[i + 1]
\* Array.prototype.findIndex((p) => p.id === pairId); -1 when absent
findIndex(pairs, pairId) ==
  IF \E i \in 1..Len(pairs) : pairs[i].id = pairId
  THEN (CHOOSE i \in 1..Len(pairs) :
           /\ pairs[i].id = pairId
           /\ \A j \in 1..(i - 1) : pairs[j].id # pairId) - 1
  ELSE -1

\* generateId() of utils/ids: an id no earlier call returned. The calls are
\* numbered by nextId and the n-th call returns n.
generateId(n) == n

\* Each constructor receives the number of the next generateId() call.
createTextBubble(content, n) ==
  [id |-> generateId(n), type |-> "text", content |-> content,
   durationSeconds |-> Max(estimateDuration(content), MinTextDuration),
   manualDuration |-> Undefined]

createFillerBubble(n) ==
  [id |-> generateId(n), type |-> "filler", content |-> <<>>,
   durationSeconds |-> DefaultFillerDuration,
   manualDuration |-> Some(TRUE)]

createVisualBubble(content, n) ==
  [id |-> generateId(n), type |-> "text", content |-> content,
   durationSeconds |-> 0, manualDuration |-> Undefined]

createPair(text, visual, n) ==
  [id |-> generateId(n),
   text |-> createTextBubble(text, n + 1),
   visual |-> createVisualBubble(visual, n + 2),
   visualSpan |-> Undefined]

createDefaultScript(n) ==
  [title |-> UntitledScript,
   totalDurationSeconds |-> DefaultTotalDuration,
   pairs |-> <<createPair(<<>>, <<>>, n)>>]

\* Array.prototype.splice(start, deleteCount, ...items), start in 0..Len
Splice(pairs, start, deleteCount, items) ==
  SubSeq(pairs, 1, start) \o items \o SubSeq(pairs, start + deleteCount + 1, Len(pairs))

(***************************************************************************)
(* Mutators of useScript (src/src/hooks/useScript.ts). Each takes the      *)
(* previous script and returns the next; n is the next generated id.       *)
(* prev.pairs.map((p, i) => ...) is written as the sequence whose k-th     *)
(* element is f(prev.pairs[k], k - 1), f being the callback.               *)
(***************************************************************************)
setTitle(prev, title) == [prev EXCEPT !.title = title]

setTotalDuration(prev, total) == [prev EXCEPT !.totalDurationSeconds = total]

\* mutant: the per-keystroke update also re-estimates the duration
updatePairText_Reestimates(prev, pairId, content) ==
  LET f(p, i) ==
        IF p.id = pairId
        THEN [p EXCEPT !.text.content = content,
                       !.text.durationSeconds =
                           Max(estimateDuration(content), MinTextDuration)]
        ELSE p
  IN  [prev EXCEPT !.pairs = [k \in 1..Len(prev.pairs) |-> f(prev.pairs[k], k - 1)]]

updatePairText(prev, pairId, content) ==
  LET f(p, i) == IF p.id = pairId THEN [p EXCEPT !.text.content = content] ELSE p
  IN  [prev EXCEPT !.pairs = [k \in 1..Len(prev.pairs) |-> f(prev.pairs[k], k - 1)]]

\* mutant: the commit re-estimates without looking at manualDuration
commitPairText_IgnoresManual(prev, pairId) ==
  LET f(p, i) ==
        IF p.id = pairId
        THEN [p EXCEPT !.text.durationSeconds =
                          Max(estimateDuration(p.text.content), MinTextDuration)]
        ELSE p
  IN  [prev EXCEPT !.pairs = [k \in 1..Len(prev.pairs) |-> f(prev.pairs[k], k - 1)]]

commitPairText(prev, pairId) ==
  LET f(p, i) ==
        IF p.id = pairId /\ p.text.manualDuration # Some(TRUE)
        THEN [p EXCEPT !.text.durationSeconds =
                          Max(estimateDuration(p.text.content), MinTextDuration)]
        ELSE p
  IN  [prev EXCEPT !.pairs = [k \in 1..Len(prev.pairs) |-> f(prev.pairs[k], k - 1)]]

updatePairVisual(prev, pairId, content) ==
  LET f(p, i) == IF p.id = pairId THEN [p EXCEPT !.visual.content = content] ELSE p
  IN  [prev EXCEPT !.pairs = [k \in 1..Len(prev.pairs) |-> f(prev.pairs[k], k - 1)]]

\* mutant: one minimum for every bubble, the pause floor forgotten
updateBubbleDuration_NoPauseFloor(prev, pairId, side, durationSeconds) ==
  LET f(p, i) ==
        IF p.id # pairId THEN p
        ELSE [p EXCEPT ![side].durationSeconds = Max(OtherMinDuration, durationSeconds),
                       ![side].manualDuration = Some(TRUE)]
  IN  [prev EXCEPT !.pairs = [k \in 1..Len(prev.pairs) |-> f(prev.pairs[k], k - 1)]]

updateBubbleDuration(prev, pairId, side, durationSeconds) ==
  LET f(p, i) ==
        IF p.id # pairId THEN p
        ELSE LET min == IF p.text.type = "filler" /\ side = "text"
                        THEN FillerMinDuration ELSE OtherMinDuration
             IN  [p EXCEPT ![side].durationSeconds = Max(min, durationSeconds),
                           ![side].manualDuration = Some(TRUE)]
  IN  [prev EXCEPT !.pairs = [k \in 1..Len(prev.pairs) |-> f(prev.pairs[k], k - 1)]]

\* mutant: the first new row reuses the identity of the row that was split
splitBubble_KeepsRowId(prev, pairId, charOffset, n) ==
  LET idx == findIndex(prev.pairs, pairId)
  IN  IF idx = -1 THEN prev
      ELSE
        LET pair == At(prev.pairs, idx)
            textBefore == Trim(Slice(pair.text.content, 0, charOffset))
            textAfter  == Trim(SliceFrom(pair.text.content, charOffset))
        IN  IF textBefore = <<>> \/ textAfter = <<>> THEN prev
            ELSE
              LET visualSplitPos == RoundDiv(Len(pair.visual.content) * charOffset,
                                             Len(pair.text.content))
                  visualBefore == Trim(Slice(pair.visual.content, 0, visualSplitPos))
                  visualAfter  == Trim(SliceFrom(pair.visual.content, visualSplitPos))
                  newPair1 == [createPair(textBefore,
                                          IF visualBefore # <<>> THEN visualBefore
                                          ELSE pair.visual.content, n)
                                EXCEPT !.id = pair.id]
                  newPair2 == createPair(textAfter, visualAfter, n + 3)
              IN  [prev EXCEPT !.pairs = Splice(prev.pairs, idx, 1, <<newPair1, newPair2>>)]

splitBubble(prev, pairId, charOffset, n) ==
  LET idx == findIndex(prev.pairs, pairId)
  IN  IF idx = -1 THEN prev
      ELSE
        LET pair == At(prev.pairs, idx)
            textBefore == Trim(Slice(pair.text.content, 0, charOffset))
            textAfter  == Trim(SliceFrom(pair.text.content, charOffset))
        IN  IF textBefore = <<>> \/ textAfter = <<>> THEN prev
            ELSE
              LET \* Math.round(visual.length * (charOffset / text.length))
                  visualSplitPos == RoundDiv(Len(pair.visual.content) * charOffset,
                                             Len(pair.text.content))
                  visualBefore == Trim(Slice(pair.visual.content, 0, visualSplitPos))
                  visualAfter  == Trim(SliceFrom(pair.visual.content, visualSplitPos))
                  newPair1 == createPair(textBefore,
                                         IF visualBefore # <<>> THEN visualBefore
                                         ELSE pair.visual.content, n)
                  newPair2 == createPair(textAfter, visualAfter, n + 3)
              IN  [prev EXCEPT !.pairs = Splice(prev.pairs, idx, 1, <<newPair1, newPair2>>)]

\* the number of generateId() calls splitBubble makes
splitBubbleIds(prev, pairId, charOffset) ==
  IF splitBubble(prev, pairId, charOffset, 0) = prev THEN 0 ELSE 6

\* while (ownerIdx > 0 && pairs[ownerIdx].visualSpan === 0) ownerIdx--
RECURSIVE walkUp(_, _)
walkUp(pairs, ownerIdx) ==
  IF ownerIdx > 0 /\ At(pairs, ownerIdx).visualSpan = Some(0)
  THEN walkUp(pairs, ownerIdx - 1)
  ELSE ownerIdx

\* span === 1 ? undefined : span
NormalizeSpan(span) == IF span = 1 THEN Undefined ELSE Some(span)

insertFillerInsideSpan(prev, atIndex) ==
  atIndex < Len(prev.pairs) /\ At(prev.pairs, atIndex).visualSpan = Some(0)

\* newPairs[ownerIdx] is undefined when the walk starts at -1: the read of
\* its visualSpan throws a TypeError
insertFillerThrows(prev, atIndex) ==
  insertFillerInsideSpan(prev, atIndex) /\ walkUp(prev.pairs, atIndex - 1) < 0

\* mutant: the pause is spliced in without splitting the span it lands in
insertFiller_NoSpanSplit(prev, atIndex, n) ==
  LET fillerPair == [id |-> generateId(n),
                     text |-> createFillerBubble(n + 1),
                     visual |-> createVisualBubble(<<>>, n + 2),
                     visualSpan |-> Undefined]
  IN  [prev EXCEPT !.pairs = Splice(prev.pairs, Min(atIndex, Len(prev.pairs)), 0,
                                    <<fillerPair>>)]

insertFiller(prev, atIndex, n) ==
  IF insertFillerInsideSpan(prev, atIndex)
  THEN
    LET ownerIdx   == walkUp(prev.pairs, atIndex - 1)
        ownerSpan  == OrElse(At(prev.pairs, ownerIdx).visualSpan, 1)
        spanBefore == atIndex - ownerIdx
        spanAfter  == ownerSpan - spanBefore
        f(p, i) ==
          IF i = ownerIdx
            THEN [p EXCEPT !.visualSpan = NormalizeSpan(spanBefore)]
          ELSE IF i = atIndex
            THEN [p EXCEPT !.visual = createVisualBubble(<<>>, n),
                           !.visualSpan = NormalizeSpan(spanAfter)]
          ELSE p
        fillerPair == [id |-> generateId(n + 1),
                       text |-> createFillerBubble(n + 2),
                       visual |-> createVisualBubble(<<>>, n + 3),
                       visualSpan |-> Undefined]
        newPairs == [k \in 1..Len(prev.pairs) |-> f(prev.pairs[k], k - 1)]
    IN  [prev EXCEPT !.pairs = Splice(newPairs, atIndex, 0, <<fillerPair>>)]
  ELSE
    LET fillerPair == [id |-> generateId(n),
                       text |-> createFillerBubble(n + 1),
                       visual |-> createVisualBubble(<<>>, n + 2),
                       visualSpan |-> Undefined]
    IN  [prev EXCEPT !.pairs = Splice(prev.pairs, Min(atIndex, Len(prev.pairs)), 0,
                                      <<fillerPair>>)]

insertFillerIds(prev, atIndex) ==
  IF insertFillerInsideSpan(prev, atIndex) THEN 4 ELSE 3

deletePair(prev, pairId) ==
  [prev EXCEPT !.pairs = SelectSeq(prev.pairs, LAMBDA p : p.id # pairId)]

\* mutant: the merged row is built on the lower row, so it keeps the lower
\* row's ids
mergePairUp_KeepsLowerIds(prev, pairId) ==
  LET idx == findIndex(prev.pairs, pairId)
  IN  IF idx <= 0 THEN prev
      ELSE
        LET above   == At(prev.pairs, idx - 1)
            current == At(prev.pairs, idx)
            mergedTextContent   == JoinNonEmpty(above.text.content, current.text.content)
            mergedVisualContent == JoinNonEmpty(above.visual.content, current.visual.content)
            mergedPair ==
              [current EXCEPT
                 !.text.content = mergedTextContent,
                 !.text.durationSeconds =
                     Max(estimateDuration(mergedTextContent), MinTextDuration),
                 !.text.manualDuration = Undefined,
                 !.visual.content = mergedVisualContent,
                 !.visualSpan = NormalizeSpan(OrElse(above.visualSpan, 1)
                                              + OrElse(current.visualSpan, 1) - 1)]
        IN  [prev EXCEPT !.pairs = Splice(prev.pairs, idx - 1, 2, <<mergedPair>>)]

\* mutant: the two texts are joined in the wrong order
mergePairUp_SwapsOrder(prev, pairId) ==
  LET idx == findIndex(prev.pairs, pairId)
  IN  IF idx <= 0 THEN prev
      ELSE
        LET above   == At(prev.pairs, idx - 1)
            current == At(prev.pairs, idx)
            mergedTextContent   == JoinNonEmpty(current.text.content, above.text.content)
            mergedVisualContent == JoinNonEmpty(current.visual.content, above.visual.content)
            mergedPair ==
              [above EXCEPT
                 !.text.content = mergedTextContent,
                 !.text.durationSeconds =
                     Max(estimateDuration(mergedTextContent), MinTextDuration),
                 !.text.manualDuration = Undefined,
                 !.visual.content = mergedVisualContent,
                 !.visualSpan = NormalizeSpan(OrElse(above.visualSpan, 1)
                                              + OrElse(current.visualSpan, 1) - 1)]
        IN  [prev EXCEPT !.pairs = Splice(prev.pairs, idx - 1, 2, <<mergedPair>>)]

mergePairUp(prev, pairId) ==
  LET idx == findIndex(prev.pairs, pairId)
  IN  IF idx <= 0 THEN prev
      ELSE
        LET above   == At(prev.pairs, idx - 1)
            current == At(prev.pairs, idx)
            mergedTextContent   == JoinNonEmpty(above.text.content, current.text.content)
            mergedVisualContent == JoinNonEmpty(above.visual.content, current.visual.content)
            mergedPair ==
              [above EXCEPT
                 !.text.content = mergedTextContent,
                 !.text.durationSeconds =
                     Max(estimateDuration(mergedTextContent), MinTextDuration),
                 !.text.manualDuration = Undefined,
                 !.visual.content = mergedVisualContent,
                 !.visualSpan = NormalizeSpan(OrElse(above.visualSpan, 1)
                                              + OrElse(current.visualSpan, 1) - 1)]
        IN  [prev EXCEPT !.pairs = Splice(prev.pairs, idx - 1, 2, <<mergedPair>>)]

\* mutant: the merged row inherits the upper row's pinned duration flag
mergePairDown_KeepsManual(prev, pairId) ==
  LET idx == findIndex(prev.pairs, pairId)
  IN  IF idx = -1 \/ idx >= Len(prev.pairs) - 1 THEN prev
      ELSE
        LET current == At(prev.pairs, idx)
            below   == At(prev.pairs, idx + 1)
            mergedTextContent   == JoinNonEmpty(current.text.content, below.text.content)
            mergedVisualContent == JoinNonEmpty(current.visual.content, below.visual.content)
            mergedPair ==
              [current EXCEPT
                 !.text.content = mergedTextContent,
                 !.text.durationSeconds =
                     Max(estimateDuration(mergedTextContent), MinTextDuration),
                 !.visual.content = mergedVisualContent,
                 !.visualSpan = NormalizeSpan(OrElse(current.visualSpan, 1)
                                              + OrElse(below.visualSpan, 1) - 1)]
        IN  [prev EXCEPT !.pairs = Splice(prev.pairs, idx, 2, <<mergedPair>>)]

mergePairDown(prev, pairId) ==
  LET idx == findIndex(prev.pairs, pairId)
  IN  IF idx = -1 \/ idx >= Len(prev.pairs) - 1 THEN prev
      ELSE
        LET current == At(prev.pairs, idx)
            below   == At(prev.pairs, idx + 1)
            mergedTextContent   == JoinNonEmpty(current.text.content, below.text.content)
            mergedVisualContent == JoinNonEmpty(current.visual.content, below.visual.content)
            mergedPair ==
              [current EXCEPT
                 !.text.content = mergedTextContent,
                 !.text.durationSeconds =
                     Max(estimateDuration(mergedTextContent), MinTextDuration),
                 !.text.manualDuration = Undefined,
                 !.visual.content = mergedVisualContent,
                 !.visualSpan = NormalizeSpan(OrElse(current.visualSpan, 1)
                                              + OrElse(below.visualSpan, 1) - 1)]
        IN  [prev EXCEPT !.pairs = Splice(prev.pairs, idx, 2, <<mergedPair>>)]

mergeVisualUp(prev, pairId) ==
  LET idx == findIndex(prev.pairs, pairId)
  IN  IF idx <= 0 THEN prev
      ELSE
        LET ownerIdx == walkUp(prev.pairs, idx - 1)
            owner    == At(prev.pairs, ownerIdx)
            current  == At(prev.pairs, idx)
            mergedVisualContent == JoinNonEmpty(owner.visual.content, current.visual.content)
            f(p, i) ==
              IF i = ownerIdx
                THEN [p EXCEPT !.visual.content = mergedVisualContent,
                               !.visualSpan = Some(OrElse(owner.visualSpan, 1)
                                                   + OrElse(current.visualSpan, 1))]
              ELSE IF i = idx
                THEN [p EXCEPT !.visualSpan = Some(0)]
              ELSE p
        IN  [prev EXCEPT !.pairs = [k \in 1..Len(prev.pairs) |-> f(prev.pairs[k], k - 1)]]

mergeVisualDown(prev, pairId) ==
  LET idx == findIndex(prev.pairs, pairId)
  IN  IF idx = -1 \/ idx >= Len(prev.pairs) - 1 THEN prev
      ELSE
        LET current == At(prev.pairs, idx)
            below   == At(prev.pairs, idx + 1)
            mergedVisualContent == JoinNonEmpty(current.visual.content, below.visual.content)
            f(p, i) ==
              IF i = idx
                THEN [p EXCEPT !.visual.content = mergedVisualContent,
                               !.visualSpan = Some(OrElse(current.visualSpan, 1)
                                                   + OrElse(below.visualSpan, 1))]
              ELSE IF i = idx + 1
                THEN [p EXCEPT !.visualSpan = Some(0)]
              ELSE p
        IN  [prev EXCEPT !.pairs = [k \in 1..Len(prev.pairs) |-> f(prev.pairs[k], k - 1)]]

\* !pair || pair.visualSpan !== 0
splitVisualSpanApplies(prev, atPairIndex) ==
  /\ atPairIndex >= 0 /\ atPairIndex < Len(prev.pairs)
  /\ At(prev.pairs, atPairIndex).visualSpan = Some(0)

\* prev.pairs[ownerIdx] is undefined when the walk starts at -1
splitVisualSpanThrows(prev, atPairIndex) ==
  splitVisualSpanApplies(prev, atPairIndex) /\ walkUp(prev.pairs, atPairIndex - 1) < 0

\* mutant: the target becomes an owner but the old owner's span is not shrunk
splitVisualSpan_KeepsOwnerSpan(prev, atPairIndex, n) ==
  IF ~splitVisualSpanApplies(prev, atPairIndex) THEN prev
  ELSE
    LET ownerIdx   == walkUp(prev.pairs, atPairIndex - 1)
        ownerSpan  == OrElse(At(prev.pairs, ownerIdx).visualSpan, 1)
        spanBefore == atPairIndex - ownerIdx
        spanAfter  == ownerSpan - spanBefore
        f(p, i) ==
          IF i = atPairIndex
            THEN [p EXCEPT !.visual = createVisualBubble(<<>>, n),
                           !.visualSpan = NormalizeSpan(spanAfter)]
          ELSE p
    IN  [prev EXCEPT !.pairs = [k \in 1..Len(prev.pairs) |-> f(prev.pairs[k], k - 1)]]

splitVisualSpan(prev, atPairIndex, n) ==
  IF ~splitVisualSpanApplies(prev, atPairIndex) THEN prev
  ELSE
    LET ownerIdx   == walkUp(prev.pairs, atPairIndex - 1)
        ownerSpan  == OrElse(At(prev.pairs, ownerIdx).visualSpan, 1)
        spanBefore == atPairIndex - ownerIdx
        spanAfter  == ownerSpan - spanBefore
        f(p, i) ==
          IF i = ownerIdx
            THEN [p EXCEPT !.visualSpan = NormalizeSpan(spanBefore)]
          ELSE IF i = atPairIndex
            THEN [p EXCEPT !.visual = createVisualBubble(<<>>, n),
                           !.visualSpan = NormalizeSpan(spanAfter)]
          ELSE p
    IN  [prev EXCEPT !.pairs = [k \in 1..Len(prev.pairs) |-> f(prev.pairs[k], k - 1)]]

splitVisualSpanIds(prev, atPairIndex) ==
  IF splitVisualSpanApplies(prev, atPairIndex) THEN 1 ELSE 0

(***************************************************************************)
(* Inputs the calls are drawn from                                         *)
(***************************************************************************)
Texts == { <<>>, <<" ", "a", " ", "b">> }
Visuals == { <<>>, <<"x", " ", "y">> }
\* requested durations in tenths of a second: -5 s, 0 s, 0.7 s, 2.5 s
Durations == { -50, 0, 7, 25 }
Sides == { "text", "visual" }
Titles == { UntitledScript, ImportedScriptTitle }
Totals == { 120, 60 }

\* the ids of the rows, and one id no row carries (generateId never returns 0)
PairIds(s) == { s.pairs[k].id : k \in 1..Len(s.pairs) } \cup {0}
\* offsets before, inside and past the content; the negative ones are what
\* String.prototype.slice counts from the end
Offsets(content) == (0 - 2) .. (Len(content) + 1)
ContentOf(s, pairId) ==
  IF findIndex(s.pairs, pairId) = -1 THEN <<>>
  ELSE At(s.pairs, findIndex(s.pairs, pairId)).text.content

(***************************************************************************)
(* Initial documents: useScript(initial ?? createDefaultScript()), then    *)
(* setScript(loaded) with an imported or a stored document.                *)
(***************************************************************************)
\* parseScriptMarkdown of three sections: "a b" *x y*, "b", "b a" *x*
ImportedScript ==
  [title |-> ImportedScriptTitle,
   totalDurationSeconds |-> DefaultTotalDuration,
   pairs |-> << createPair(<<"a", " ", "b">>, <<"x", " ", "y">>, 1),
                createPair(<<"b">>, <<>>, 4),
                createPair(<<"b", " ", "a">>, <<"x">>, 7) >>]

\* a stored document: the imported one after its first visual was merged
\* down and its last visual merged up, so that it spans all three rows
StoredSpanScript == mergeVisualUp(mergeVisualDown(ImportedScript, 1), 7)

InitialScripts ==
  { <<createDefaultScript(1), 4>>,
    <<StoredSpanScript, 10>> }

Call(op, id, idx, side, val, str, threw) ==
  [op |-> op, id |-> id, idx |-> idx, side |-> side, val |-> val, str |-> str,
   threw |-> threw]

NoCall == Call("none", 0, 0, "text", 0, <<>>, FALSE)

(***************************************************************************)
(* Markdown export and import (exportMarkdown.ts, parseMarkdown.ts)        *)
(* Positions in a character sequence are 1-based.                          *)
(***************************************************************************)
Digits == <<"0", "1", "2", "3", "4", "5", "6", "7", "8", "9">>
IsDigit(c) == \E k \in 1..Len(Digits) : Digits[k] = c

RECURSIVE ToDigits(_)
\* Number.prototype.toString() of a natural number
ToDigits(n) ==
  IF n < Len(Digits) THEN <<Digits[n + 1]>>
  ELSE ToDigits(n \div Len(Digits)) \o <<Digits[(n % Len(Digits)) + 1]>>

\* padStart(2, '0')
padStart2(ds) == IF Len(ds) < 2 THEN <<"0">> \o ds ELSE ds

SecondsPerMinute == 60

\* formatTime(seconds), the time given in tenths of a second:
\* m = Math.floor(seconds / 60), s = Math.round(seconds % 60)
formatTime(tenths) ==
  ToDigits(tenths \div (SecondsPerMinute * 10))
    \o <<":">>
    \o padStart2(ToDigits(RoundDiv(tenths % (SecondsPerMinute * 10), 10)))

RECURSIVE JoinLines(_)
\* lines.join('\n')
JoinLines(lines) ==
  IF lines = <<>> THEN <<>>
  ELSE IF Len(lines) = 1 THEN lines[1]
  ELSE lines[1] \o <<"\n">> \o JoinLines(Tail(lines))

\* content.replace(/\n/g, ' ')
ReplaceNewlines(text) == [k \in 1..Len(text) |-> IF text[k] = "\n" THEN " " ELSE text[k]]

VoiceoverHeading ==
  <<"#", "#", " ", "V", "o", "i", "c", "e", "o", "v", "e", "r", " ",
    "S", "c", "r", "i", "p", "t">>
VoiceoverWords ==
  <<"V", "o", "i", "c", "e", "o", "v", "e", "r", " ", "S", "c", "r", "i", "p", "t">>

RECURSIVE exportPairs(_, _)
\* the lines pushed by the loop over script.pairs
exportPairs(rows, cumulativeTime) ==
  IF rows = <<>> THEN <<>>
  ELSE
    LET pair == Head(rows)
        tc   == <<"[">> \o formatTime(cumulativeTime) \o <<"]">>
        pushed ==
          IF pair.text.type = "filler" THEN <<tc, <<>>>>
          ELSE
            << tc \o (IF pair.visual.content # <<>>
                      THEN <<" ", "*">> \o ReplaceNewlines(pair.visual.content) \o <<"*">>
                      ELSE <<>>),
               <<>> >>
            \o (IF pair.text.content # <<>> THEN <<pair.text.content, <<>>>> ELSE <<>>)
    IN  pushed \o exportPairs(Tail(rows), cumulativeTime + pair.text.durationSeconds)

exportToMarkdown(s) ==
  JoinLines(<< <<"#", " ">> \o s.title, <<>>, VoiceoverHeading, <<>> >>
            \o exportPairs(s.pairs, 0))

\* the text has pattern at position i
HasAt(text, i, pattern) ==
  /\ i >= 1
  /\ i + Len(pattern) - 1 <= Len(text)
  /\ \A k \in 1..Len(pattern) : text[i + k - 1] = pattern[k]

\* the least element of a non-empty set of positions
Least(positions) == CHOOSE i \in positions : \A j \in positions : i <= j

\* the position of the end of the line that holds position i (Len + 1 at the end)
LineEnd(text, i) ==
  LET ends == { j \in i..Len(text) : text[j] = "\n" }
  IN  IF ends = {} THEN Len(text) + 1 ELSE Least(ends)

\* the number of whitespace characters from position i on
WsRun(text, i) ==
  LET stops == { j \in i..Len(text) : ~IsWs(text[j]) }
  IN  (IF stops = {} THEN Len(text) + 1 ELSE Least(stops)) - i

\* markdown.match(/^# (.+)/m): the first line that starts with "# " and one
\* more character; title = titleMatch[1].trim(), 'Imported Script' without
parseTitle(markdown) ==
  LET starts == { i \in 1..Len(markdown) :
                    /\ i = 1 \/ markdown[i - 1] = "\n"
                    /\ HasAt(markdown, i, <<"#", " ">>)
                    /\ i + 2 <= Len(markdown)
                    /\ markdown[i + 2] # "\n" }
  IN  IF starts = {} THEN ImportedScriptTitle
      ELSE LET i == Least(starts)
           IN  Trim(SubSeq(markdown, i + 2, LineEnd(markdown, i) - 1))

\* markdown.match(/##\s+Voiceover Script[^\n]*/): the text after the heading
\* line, the whole text when there is no heading
afterHeading(markdown) ==
  LET starts == { i \in 1..Len(markdown) :
                    /\ HasAt(markdown, i, <<"#", "#">>)
                    /\ WsRun(markdown, i + 2) >= 1
                    /\ HasAt(markdown, i + 2 + WsRun(markdown, i + 2), VoiceoverWords) }
  IN  IF starts = {} THEN markdown
      ELSE LET i == Least(starts)
               matched == i + 2 + WsRun(markdown, i + 2) + Len(VoiceoverWords)
           IN  SubSeq(markdown, LineEnd(markdown, matched), Len(markdown))

\* restOfDoc.match(/\n##\s+/): the text up to the next "##" heading
scriptContent(restOfDoc) ==
  LET starts == { i \in 1..Len(restOfDoc) :
                    /\ HasAt(restOfDoc, i, <<"\n", "#", "#">>)
                    /\ WsRun(restOfDoc, i + 3) >= 1 }
  IN  IF starts = {} THEN restOfDoc
      ELSE SubSeq(restOfDoc, 1, Least(starts) - 1)

\* the length of a match of /\[\d+:\d{2}\]/ at position i, 0 without a match
TimecodeAt(text, i) ==
  IF ~HasAt(text, i, <<"[">>) THEN 0
  ELSE
    LET stops  == { j \in (i + 1)..Len(text) : ~IsDigit(text[j]) }
        colon  == IF stops = {} THEN Len(text) + 1 ELSE Least(stops)
    IN  IF /\ colon > i + 1
           /\ colon + 3 <= Len(text)
           /\ text[colon] = ":"
           /\ IsDigit(text[colon + 1])
           /\ IsDigit(text[colon + 2])
           /\ text[colon + 3] = "]"
        THEN colon + 3 - i + 1
        ELSE 0

RECURSIVE SplitTimecodes(_, _, _)
\* scriptContent.split(/\[\d+:\d{2}\]/): the parts between the timecodes;
\* from is where the current part starts, i the position being scanned
SplitTimecodes(text, from, i) ==
  IF i > Len(text) THEN <<SubSeq(text, from, Len(text))>>
  ELSE IF TimecodeAt(text, i) > 0
  THEN <<SubSeq(text, from, i - 1)>>
         \o SplitTimecodes(text, i + TimecodeAt(text, i), i + TimecodeAt(text, i))
  ELSE SplitTimecodes(text, from, i + 1)

\* parts.map((p) => p.trim()).filter((p) => p.length > 0)
sections(content) ==
  LET parts == SplitTimecodes(content, 1, 1)
      trimmed == [k \in 1..Len(parts) |-> Trim(parts[k])]
  IN  SelectSeq(trimmed, LAMBDA part : part # <<>>)

\* the position of the star that closes a match of /\*([^*]+)\*/ opened at
\* position i, 0 without a match
DirectionEnd(text, i) ==
  IF ~HasAt(text, i, <<"*">>) THEN 0
  ELSE LET stars == { j \in (i + 1)..Len(text) : text[j] = "*" }
       IN  IF stars = {} THEN 0
           ELSE IF Least(stars) = i + 1 THEN 0
           ELSE Least(stars)

RECURSIVE ExtractDirections(_, _)
\* sectionContent.replace(/\*([^*]+)\*/g, ...): the text left and the stage
\* directions pushed to visuals, each trimmed
ExtractDirections(text, i) ==
  IF i > Len(text) THEN [text |-> <<>>, visuals |-> <<>>]
  ELSE IF DirectionEnd(text, i) > 0
  THEN LET rest == ExtractDirections(text, DirectionEnd(text, i) + 1)
       IN  [text |-> rest.text,
            visuals |-> <<Trim(SubSeq(text, i + 1, DirectionEnd(text, i) - 1))>>
                          \o rest.visuals]
  ELSE LET rest == ExtractDirections(text, i + 1)
       IN  [text |-> <<text[i]>> \o rest.text, visuals |-> rest.visuals]

\* replace(/^\n+|\n+$/g, '')
StripNewlines(text) ==
  LET keep == { i \in 1..Len(text) : text[i] # "\n" }
  IN  IF keep = {} THEN <<>>
      ELSE SubSeq(text, Least(keep), CHOOSE i \in keep : \A j \in keep : j <= i)

RECURSIVE CollapseNewlines(_, _)
\* replace(/\n{3,}/g, '\n\n'); run is the number of newlines just copied
CollapseNewlines(text, run) ==
  IF text = <<>> THEN <<>>
  ELSE IF Head(text) = "\n"
  THEN (IF run >= 2 THEN <<>> ELSE <<"\n">>) \o CollapseNewlines(Tail(text), run + 1)
  ELSE <<Head(text)>> \o CollapseNewlines(Tail(text), 0)

\* createEmptyPair()
createEmptyPair(n) ==
  [id |-> generateId(n),
   text |-> [id |-> generateId(n + 1), type |-> "text", content |-> <<>>,
             durationSeconds |-> MinTextDuration, manualDuration |-> Undefined],
   visual |-> [id |-> generateId(n + 2), type |-> "text", content |-> <<>>,
               durationSeconds |-> 0, manualDuration |-> Undefined],
   visualSpan |-> Undefined]

\* the pair parsed from one section
parseSection(sectionContent, n) ==
  LET extracted == ExtractDirections(sectionContent, 1)
      textContent == CollapseNewlines(StripNewlines(extracted.text), 0)
      text == Trim(textContent)
      visual == JoinLines(extracted.visuals)
  IN  [id |-> generateId(n),
       text |-> [id |-> generateId(n + 1), type |-> "text", content |-> text,
                 durationSeconds |-> Max(estimateDuration(text), MinTextDuration),
                 manualDuration |-> Undefined],
       visual |-> [id |-> generateId(n + 2), type |-> "text", content |-> visual,
                   durationSeconds |-> 0, manualDuration |-> Undefined],
       visualSpan |-> Undefined]

IdsPerPair == 3
\* an id above those of the scripts the model starts from
FreshId == 10

RECURSIVE SumTextDurations(_)
SumTextDurations(rows) ==
  IF rows = <<>> THEN 0
  ELSE Head(rows).text.durationSeconds + SumTextDurations(Tail(rows))

\* Math.max(120, Math.ceil(totalDuration / 10) * 10), totalDuration in tenths
importedTotal(rows) ==
  Max(DefaultTotalDuration, ((SumTextDurations(rows) + 99) \div 100) * 10)

parseScriptMarkdown(markdown, n) ==
  LET secs == sections(scriptContent(afterHeading(markdown)))
      all == [k \in 1..Len(secs) |-> parseSection(secs[k], n + IdsPerPair * (k - 1))]
      kept == SelectSeq(all, LAMBDA p : p.text.content # <<>> \/ p.visual.content # <<>>)
  IN  IF secs = <<>>
      THEN [title |-> parseTitle(markdown),
            totalDurationSeconds |-> DefaultTotalDuration,
            pairs |-> <<createEmptyPair(n)>>]
      ELSE [title |-> parseTitle(markdown),
            totalDurationSeconds |-> importedTotal(kept),
            pairs |-> IF kept # <<>> THEN kept
                      ELSE <<createEmptyPair(n + IdsPerPair * Len(secs))>>]

\* the generateId calls parseScriptMarkdown makes
parseScriptMarkdownIds(markdown) ==
  LET secs == sections(scriptContent(afterHeading(markdown)))
      all == [k \in 1..Len(secs) |-> parseSection(secs[k], 0)]
      kept == SelectSeq(all, LAMBDA p : p.text.content # <<>> \/ p.visual.content # <<>>)
  IN  IdsPerPair * (Len(secs) + (IF kept = <<>> THEN 1 ELSE 0))

(***************************************************************************)
(* Layout (BubbleTimeline.tsx, duration, min-height and zoom calculations) *)
(*                                                                         *)
(* A JavaScript number is an exact rational [n, d] in lowest terms with    *)
(* d > 0; the rounding of doubles is not modelled.                         *)
(***************************************************************************)
RECURSIVE GCD(_, _)
GCD(a, b) == IF b = 0 THEN a ELSE GCD(b, a % b)

Abs(a) == IF a < 0 THEN 0 - a ELSE a

Rat(n, d) ==
  LET g == GCD(Abs(n), Abs(d))
      sgn == IF d < 0 THEN -1 ELSE 1
  IN  [n |-> sgn * (n \div g), d |-> sgn * (d \div g)]

RatInt(i) == [n |-> i, d |-> 1]
RatAdd(a, b) ==
  LET g == GCD(a.d, b.d)
  IN  Rat(a.n * (b.d \div g) + b.n * (a.d \div g), (a.d \div g) * b.d)
RatSub(a, b) == RatAdd(a, [n |-> 0 - b.n, d |-> b.d])
RatMul(a, b) ==
  LET g1 == GCD(Abs(a.n), b.d)
      g2 == GCD(Abs(b.n), a.d)
      h1 == IF g1 = 0 THEN 1 ELSE g1
      h2 == IF g2 = 0 THEN 1 ELSE g2
  IN  Rat((a.n \div h1) * (b.n \div h2), (a.d \div h2) * (b.d \div h1))
\* a / b for b # 0
RatDiv(a, b) == RatMul(a, Rat(b.d, b.n))
RatLt(a, b) == a.n * b.d < b.n * a.d
RatLe(a, b) == a.n * b.d <= b.n * a.d
RatMax(a, b) == IF RatLt(a, b) THEN b ELSE a

\* durations are tenths of a second in the model
Seconds(tenths) == Rat(tenths, 10)

GAP_PX == 8
\* useState(600)
DefaultContainerHeight == 600
\* defaultSettings.zoom: 0.25, in hundredths
DefaultZoom == 25
\* the slider runs from 0 to 1 by 0.01
ZoomUnit == 100
\* Math.max(proportionalPxPerSec, 30)
MinFillerPxPerSec == 30
\* Math.max(28, ...) for a pause row; 48 for a text row
MinFillerRowPx == 28
MinTextRowPx == 48
\* Math.max(24, ...) for the remaining-time block
MinRemainingPx == 24

RECURSIVE SumDurations(_)
\* pairs.reduce((sum, p) => sum + p.text.durationSeconds, 0)
SumDurations(rows) ==
  IF rows = <<>> THEN RatInt(0)
  ELSE RatAdd(Seconds(Head(rows).text.durationSeconds), SumDurations(Tail(rows)))

textDuration(t) == SumDurations(t.pairs)
remainingTime(t) == RatMax(RatInt(0), RatSub(RatInt(t.totalDuration), textDuration(t)))
overBudget(t) == RatLt(RatInt(t.totalDuration), textDuration(t))
effectiveTotal(t) == RatMax(textDuration(t), RatInt(t.totalDuration))

proportionalPxPerSec(t, h) == RatDiv(RatInt(h), effectiveTotal(t))
fillerPxPerSec(t, h) == RatMax(proportionalPxPerSec(t, h), RatInt(MinFillerPxPerSec))

pairMinHeights(t, h) ==
  [k \in 1..Len(t.pairs) |->
     IF t.pairs[k].text.type = "filler"
     THEN RatMax(RatInt(MinFillerRowPx),
                 RatMul(Seconds(t.pairs[k].text.durationSeconds), fillerPxPerSec(t, h)))
     ELSE RatInt(MinTextRowPx)]

fillerMinHeight(t, h) ==
  IF RatLt(RatInt(0), remainingTime(t))
  THEN RatMax(RatInt(MinRemainingPx),
              RatMul(RatDiv(remainingTime(t), effectiveTotal(t)), RatInt(h)))
  ELSE RatInt(0)

\* mutant: the fit scale is applied whatever the zoom
scale_AlwaysFit(natural, h, z) ==
  IF RatLt(RatInt(h), natural) /\ h > 0 THEN RatDiv(RatInt(h), natural) ELSE RatInt(1)

fitScale(natural, h) ==
  IF RatLt(RatInt(h), natural) /\ h > 0 THEN RatDiv(RatInt(h), natural) ELSE RatInt(1)

scale(natural, h, z) ==
  IF RatLt(fitScale(natural, h), RatInt(1))
  THEN RatAdd(RatInt(1), RatMul(Rat(z, ZoomUnit), RatSub(fitScale(natural, h), RatInt(1))))
  ELSE RatInt(1)

\* height: scale < 1 ? naturalHeight * scale : undefined (the content's own height)
renderedHeight(natural, h, z) ==
  IF RatLt(scale(natural, h, z), RatInt(1))
  THEN RatMul(natural, scale(natural, h, z))
  ELSE natural

RECURSIVE SumTracks(_)
SumTracks(heights) ==
  IF heights = <<>> THEN RatInt(0)
  ELSE RatAdd(RatAdd(RatInt(GAP_PX), Head(heights)), SumTracks(Tail(heights)))

\* the height the browser gives the content block: per row a separator track
\* and a content track, the remaining-time block under its own separator,
\* and extra pixels (column headers, bottom spacing, the over-budget banner,
\* text taller than a row's minimum)
contentHeight(t, h, extra) ==
  RatAdd(RatAdd(SumTracks(pairMinHeights(t, h)),
                IF RatLt(RatInt(0), fillerMinHeight(t, h))
                THEN RatAdd(RatInt(GAP_PX), fillerMinHeight(t, h))
                ELSE RatInt(0)),
         RatInt(extra))

\* Math.max(0, Math.min(1, zoom))
clampZoom(z) == Max(0, Min(ZoomUnit, z))

Timeline(s) == [pairs |-> s.pairs, totalDuration |-> s.totalDurationSeconds]

\* documents shown by the timeline: the default one, an imported one, one with
\* a pause, one whose first row is pinned to 119 s, and one over its budget
Timelines ==
  { Timeline(createDefaultScript(1)),
    Timeline(ImportedScript),
    Timeline(insertFiller(ImportedScript, 1, 10)),
    Timeline(updateBubbleDuration(ImportedScript, 1, "text", 1190)),
    Timeline(setTotalDuration(updateBubbleDuration(ImportedScript, 1, "text", 1190), 60)) }

Heights == { 0, 300, 600 }
Extras == { 48, 400 }
Zooms == { -10, 0, 25, 100, 130 }

InitLayout ==
  /\ timeline = Timeline(createDefaultScript(1))
  /\ containerHeight = DefaultContainerHeight
  /\ naturalHeight = RatInt(0)
  /\ zoom = DefaultZoom

(***************************************************************************)
(* Server storage (convex/scripts.ts)                                      *)
(*                                                                         *)
(* identity is a set: {} when ctx.auth.getUserIdentity() is null, {subject}*)
(* otherwise.  A function returns [ok, error, value, db]: a thrown Error   *)
(* aborts the mutation's transaction, so db is the table it was given.     *)
(***************************************************************************)
MaxCalls == 2

Users == { "u1", "u2" }
Identities == { {} } \cup { {u} : u \in Users }

Returned(value, table) == [ok |-> TRUE, error |-> "", value |-> value, db |-> table]
Thrown(error, table) == [ok |-> FALSE, error |-> error, value |-> <<>>, db |-> table]

Subject(identity) == CHOOSE u \in identity : TRUE

RECURSIVE SortByUpdatedAtDesc(_, _)
\* scripts.sort((a, b) => b.updatedAt - a.updatedAt), on the ids of the rows
SortByUpdatedAtDesc(table, ids) ==
  IF ids = {} THEN <<>>
  ELSE LET top == CHOOSE i \in ids :
                    \A j \in ids : \/ table[j].updatedAt < table[i].updatedAt
                                   \/ (table[j].updatedAt = table[i].updatedAt /\ i <= j)
       IN  <<table[top]>> \o SortByUpdatedAtDesc(table, ids \ {top})

list(table, identity) ==
  IF identity = {} THEN Returned(<<>>, table)
  ELSE Returned(SortByUpdatedAtDesc(table,
                  { i \in DOMAIN table : table[i].userId = Subject(identity) }),
                table)

\* mutant: get returns the document whoever asks
get_NoOwnerCheck(table, identity, id) ==
  IF identity = {} THEN Returned({}, table)
  ELSE IF id \notin DOMAIN table
  THEN Returned({}, table)
  ELSE Returned({table[id]}, table)

\* the result value is a set: {} for null, {document} otherwise
get(table, identity, id) ==
  IF identity = {} THEN Returned({}, table)
  ELSE IF id \notin DOMAIN table \/ table[id].userId # Subject(identity)
  THEN Returned({}, table)
  ELSE Returned({table[id]}, table)

create(table, identity, args, now, newId) ==
  IF identity = {} THEN Thrown("Not authenticated", table)
  ELSE Returned(newId,
         [i \in DOMAIN table \cup {newId} |->
            IF i = newId
            THEN [id |-> newId,
                  userId |-> Subject(identity),
                  title |-> args.title,
                  totalDurationSeconds |-> args.totalDurationSeconds,
                  pairs |-> args.pairs,
                  createdAt |-> now,
                  updatedAt |-> now]
            ELSE table[i]])

\* args.title and args.pairs are optional: {} when undefined
update(table, identity, id, args, now) ==
  IF identity = {} THEN Thrown("Not authenticated", table)
  ELSE IF id \notin DOMAIN table \/ table[id].userId # Subject(identity)
  THEN Thrown("Not found", table)
  ELSE Returned(<<>>,
         [table EXCEPT
            ![id].updatedAt = now,
            ![id].title = OrElse(args.title, @),
            ![id].totalDurationSeconds = OrElse(args.totalDurationSeconds, @),
            ![id].pairs = OrElse(args.pairs, @)])

remove(table, identity, id) ==
  IF identity = {} THEN Thrown("Not authenticated", table)
  ELSE IF id \notin DOMAIN table \/ table[id].userId # Subject(identity)
  THEN Thrown("Not found", table)
  ELSE Returned(<<>>, [i \in DOMAIN table \ {id} |-> table[i]])

CreateArgs ==
  { [title |-> "Untitled Script", totalDurationSeconds |-> DefaultTotalDuration,
     pairs |-> "pairs0"] }

UpdateArgs ==
  { [title |-> {"T"}, totalDurationSeconds |-> {}, pairs |-> {}],
    [title |-> {}, totalDurationSeconds |-> {}, pairs |-> {"pairs1"}],
    [title |-> {}, totalDurationSeconds |-> {}, pairs |-> {}] }

\* the ids a client can pass: those inserted so far and one that never was
DocIds == 1..dbNextId

ServerCall(fn, identity, id, result) ==
  [fn |-> fn, identity |-> identity, id |-> id, before |-> db,
   ok |-> result.ok, error |-> result.error, value |-> result.value]

NoServerCall ==
  [fn |-> "none", identity |-> {}, id |-> 0, before |-> db,
   ok |-> TRUE, error |-> "", value |-> <<>>]

\* the table once each user has created a script
StoredTable ==
  LET args == CHOOSE a \in CreateArgs : TRUE
  IN  create(create(<<>>, {"u1"}, args, 0, 1).db, {"u2"}, args, 0, 2).db

InitDb ==
  /\ db = StoredTable
  /\ dbNextId = Len(StoredTable) + 1
  /\ dbCalls = 0
  /\ lastCall = NoServerCall

\* nothing has been exported yet
InitFile == exportedFile = {}

(***************************************************************************)
(* Auto-save (App.tsx) and the storage provider (hooks/useStorage.ts)      *)
(*                                                                         *)
(* A file id is an integer: a positive one is an id given by the server, a *)
(* negative one -k is the temporary id `pending-...` made by createFile in *)
(* the k-th file operation.  A pending save is [script, call]: the script  *)
(* saveFile was given and the number of that saveFile call.                *)
(***************************************************************************)
\* id.startsWith('pending-')
IsPending(id) == id < 0

\* the files on the server when the application starts
StoredFiles == <<createDefaultScript(1), ImportedScript>>

\* the id the server gives the file whose temporary id is -k
ServerId(k) == Len(StoredFiles) + k

\* Map.set and Map.delete
MapSet(map, key, value) == [k \in DOMAIN map \cup {key} |-> IF k = key THEN value ELSE map[k]]
MapDelete(map, key) == [k \in DOMAIN map \ {key} |-> map[k]]

\* the refs of useStorageProvider that saveFile reads and writes
Storage(cache, timers, log, calls) ==
  [cache |-> cache, timers |-> timers, log |-> log, calls |-> calls]

\* saveFile(id, script): the cache is updated at once, the pending timer of
\* this id is cleared and a new one is set
saveFile(st, id, s) ==
  Storage(MapSet(st.cache, id, s),
          MapSet(MapDelete(st.timers, id), id, [script |-> s, call |-> st.calls + 1]),
          MapSet(st.log, id, [script |-> s, call |-> st.calls + 1]),
          st.calls + 1)

\* if (storage.currentFileId && !storage.currentFileId.startsWith('pending-'))
\*   storage.saveFile(storage.currentFileId, scriptRef.current)
saveCurrent(st, current, s) ==
  IF current # {} /\ ~IsPending(CHOOSE id \in current : TRUE)
  THEN saveFile(st, CHOOSE id \in current : TRUE, s)
  ELSE st

\* loadFile(id): scriptCache.current.get(id) ?? null, as a set
loadFile(cache, id) == IF id \in DOMAIN cache THEN {cache[id]} ELSE {}

\* the cache-sync effect: every listed script is written into the cache
syncCache(cache, server) ==
  [id \in DOMAIN cache \cup DOMAIN server |->
     IF id \in DOMAIN server THEN server[id].script ELSE cache[id]]

\* the history of saveCurrent: the file the saved document belongs to
savedCurrent(saved, current, doc) ==
  IF current # {} /\ ~IsPending(CHOOSE id \in current : TRUE)
  THEN MapSet(saved, CHOOSE id \in current : TRUE, doc)
  ELSE saved

\* the auto-save effect, run when script or currentFileId changed: the
\* cleanup clears the timer of the run before, and a timer is set unless
\* there is no current file or its id is a temporary one (the editor is
\* shown only after the bootstrap, so bootstrapped.current is true)
autoSaveEffect(current) ==
  IF current = {} \/ IsPending(CHOOSE id \in current : TRUE) THEN {} ELSE current

\* what the bootstrap effect records: nothing before it has run
NoBoot == [outcome |-> "none", persisted |-> {}, files |-> <<>>, loaded |-> {}]

\* the list query has not answered and the bootstrap effect has not run
InitLoading ==
  /\ convexScripts = {}
  /\ bootstrapped = FALSE
  /\ bootOutcome = NoBoot

\* the storage provider with the stored files cached and nothing pending;
\* timer is {1} when the auto-save effect has run for file 1 and {} when not
InitStorage(timer) ==
  /\ currentFileId = {1}
  /\ scriptCache = StoredFiles
  /\ saveTimers = <<>>
  /\ saveLog = <<>>
  /\ saveCalls = 0
  /\ fileOps = 0
  /\ changedUnder = timer
  /\ docFile = {1}
  /\ savedDoc = <<>>
  /\ cacheStale = FALSE
  /\ saveTimer = timer
  /\ outbox = <<>>
  /\ received = [id \in DOMAIN StoredFiles |-> [script |-> StoredFiles[id], call |-> 0]]

InitSave == InitStorage({}) /\ InitLoading

\* what one event handler of the timeline did: the row it was raised on, the
\* editingPairId it saw, and the onCommitText calls it made, in order
Event(kind, row, before, commits) ==
  [kind |-> kind, row |-> row, before |-> before, commits |-> commits]

NoEvent == Event("none", 0, {}, <<>>)

\* useState<string | null>(null): no row is being edited
InitEdit ==
  /\ editingPairId = {}
  /\ lastEvent = NoEvent

InitScript ==
  /\ \E init \in InitialScripts : script = init[1] /\ nextId = init[2]
  /\ lastOp = NoCall
  /\ prevOp = NoCall
  /\ prevScript = script
  /\ prevScript2 = script
  /\ steps = 0

Init ==
  /\ InitScript
  /\ InitEdit
  /\ InitLayout
  /\ InitDb
  /\ InitFile
  /\ InitSave

\* setScript((prev) => next): one call, recorded in the history
ApplyCall(call, next, idsUsed) ==
  /\ steps < MaxSteps
  /\ script' = next
  /\ nextId' = nextId + idsUsed
  /\ lastOp' = call
  /\ prevScript' = script
  /\ prevOp' = lastOp
  /\ prevScript2' = prevScript
  /\ steps' = steps + 1

\* a mutator called from outside the edit-mode coordinator
Apply(call, next, idsUsed) ==
  /\ ApplyCall(call, next, idsUsed)
  /\ UNCHANGED <<editVars, layoutVars, dbVars, fileVars, saveVars, bootVars>>

SetTitle ==
  \E title \in Titles :
    Apply(Call("setTitle", 0, 0, "text", 0, <<>>, FALSE), setTitle(script, title), 0)

SetTotalDuration ==
  \E total \in Totals :
    Apply(Call("setTotalDuration", 0, 0, "text", total, <<>>, FALSE),
          setTotalDuration(script, total), 0)

UpdatePairText ==
  \E pairId \in PairIds(script), content \in Texts :
    Apply(Call("updatePairText", pairId, 0, "text", 0, content, FALSE),
          updatePairText(script, pairId, content), 0)

CommitPairText ==
  \E pairId \in PairIds(script) :
    Apply(Call("commitPairText", pairId, 0, "text", 0, <<>>, FALSE),
          commitPairText(script, pairId), 0)

UpdatePairVisual ==
  \E pairId \in PairIds(script), content \in Visuals :
    Apply(Call("updatePairVisual", pairId, 0, "visual", 0, content, FALSE),
          updatePairVisual(script, pairId, content), 0)

UpdateBubbleDuration ==
  \E pairId \in PairIds(script), side \in Sides, durationSeconds \in Durations :
    Apply(Call("updateBubbleDuration", pairId, 0, side, durationSeconds, <<>>, FALSE),
          updateBubbleDuration(script, pairId, side, durationSeconds), 0)

SplitBubble ==
  \E pairId \in PairIds(script) :
    \E charOffset \in Offsets(ContentOf(script, pairId)) :
      Apply(Call("splitBubble", pairId, 0, "text", charOffset, <<>>, FALSE),
            splitBubble(script, pairId, charOffset, nextId),
            splitBubbleIds(script, pairId, charOffset))

\* a TypeError thrown inside the updater leaves the state as it was
InsertFiller ==
  \E atIndex \in 0..Len(script.pairs) :
    IF insertFillerThrows(script, atIndex)
    THEN Apply(Call("insertFiller", 0, atIndex, "text", 0, <<>>, TRUE), script, 0)
    ELSE Apply(Call("insertFiller", 0, atIndex, "text", 0, <<>>, FALSE),
               insertFiller(script, atIndex, nextId),
               insertFillerIds(script, atIndex))

DeletePair ==
  \E pairId \in PairIds(script) :
    Apply(Call("deletePair", pairId, 0, "text", 0, <<>>, FALSE),
          deletePair(script, pairId), 0)

MergePairUp ==
  \E pairId \in PairIds(script) :
    Apply(Call("mergePairUp", pairId, 0, "text", 0, <<>>, FALSE),
          mergePairUp(script, pairId), 0)

MergePairDown ==
  \E pairId \in PairIds(script) :
    Apply(Call("mergePairDown", pairId, 0, "text", 0, <<>>, FALSE),
          mergePairDown(script, pairId), 0)

MergeVisualUp ==
  \E pairId \in PairIds(script) :
    Apply(Call("mergeVisualUp", pairId, 0, "visual", 0, <<>>, FALSE),
          mergeVisualUp(script, pairId), 0)

MergeVisualDown ==
  \E pairId \in PairIds(script) :
    Apply(Call("mergeVisualDown", pairId, 0, "visual", 0, <<>>, FALSE),
          mergeVisualDown(script, pairId), 0)

SplitVisualSpan ==
  \E atPairIndex \in 0..Len(script.pairs) :
    IF splitVisualSpanThrows(script, atPairIndex)
    THEN Apply(Call("splitVisualSpan", 0, atPairIndex, "visual", 0, <<>>, TRUE), script, 0)
    ELSE Apply(Call("splitVisualSpan", 0, atPairIndex, "visual", 0, <<>>, FALSE),
               splitVisualSpan(script, atPairIndex, nextId),
               splitVisualSpanIds(script, atPairIndex))

Next ==
  \/ SetTitle
  \/ SetTotalDuration
  \/ UpdatePairText
  \/ CommitPairText
  \/ UpdatePairVisual
  \/ UpdateBubbleDuration
  \/ SplitBubble
  \/ InsertFiller
  \/ DeletePair
  \/ MergePairUp
  \/ MergePairDown
  \/ MergeVisualUp
  \/ MergeVisualDown
  \/ SplitVisualSpan

Spec == Init /\ [][Next]_vars

\* the mutators that insert, split, merge, delete, time and commit rows
NextRows ==
  \/ InsertFiller
  \/ SplitBubble
  \/ MergePairUp
  \/ MergePairDown
  \/ DeletePair
  \/ UpdateBubbleDuration
  \/ CommitPairText

SpecRows == Init /\ [][NextRows]_vars

\* the visual-track operations alone (insertPause, mergeVisualUp/Down, splitVisualSpan)
NextSpan ==
  \/ InsertFiller
  \/ MergeVisualUp
  \/ MergeVisualDown
  \/ SplitVisualSpan

SpecSpan == Init /\ [][NextSpan]_vars

(***************************************************************************)
(* Edit-mode coordinator (BubbleTimeline.tsx, TextBubble.tsx)              *)
(*                                                                         *)
(* Each handler is a function of the editingPairId it sees; it returns the *)
(* next editingPairId and the onCommitText calls it makes, in order.       *)
(***************************************************************************)
Handled(editing, commits) == [editing |-> editing, commits |-> commits]

\* mutant: a second row enters edit mode without committing the first
enterEditMode_NoCommit(editing, pairId) ==
  Handled({pairId}, <<>>)

enterEditMode(editing, pairId) ==
  IF editing # {} /\ editing # {pairId}
  THEN Handled({pairId}, <<CHOOSE e \in editing : TRUE>>)
  ELSE Handled({pairId}, <<>>)

\* mutant: edit mode is left without committing
exitEditMode_NoCommit(editing) ==
  Handled({}, <<>>)

exitEditMode(editing) ==
  IF editing # {}
  THEN Handled({}, <<CHOOSE e \in editing : TRUE>>)
  ELSE Handled({}, <<>>)

\* mutant: a click outside leaves edit mode without committing
handleMouseDown_NoCommit(editing, inside) ==
  IF editing = {} \/ inside THEN Handled(editing, <<>>) ELSE Handled({}, <<>>)

\* the document mousedown listener; it is registered only while a row is
\* being edited; inside: target.closest('[data-editing-bubble]') is not null
handleMouseDown(editing, inside) ==
  IF editing = {} THEN Handled(editing, <<>>)
  ELSE IF inside THEN Handled(editing, <<>>)
  ELSE Handled({}, <<CHOOSE e \in editing : TRUE>>)

\* isEditing={pair.id === editingPairId}
isEditing(pair) == pair.id \in editingPairId

isFiller(pair) == pair.text.type = "filler"

\* TextBubble.handleKeyDown, for the part that concerns edit mode
handleKeyDown(editing, rowEditing, key) ==
  IF key \in {"Escape", "ShiftEnter"} /\ rowEditing THEN exitEditMode(editing)
  ELSE Handled(editing, <<>>)

\* the handler's setEditingPairId and its onCommitText calls, batched into
\* one render
Coordinate(kind, row, result) ==
  /\ editingPairId' = result.editing
  /\ lastEvent' = Event(kind, row, editingPairId, result.commits)
  /\ UNCHANGED <<layoutVars, dbVars, fileVars, saveVars, bootVars>>
  /\ IF result.commits = <<>>
     THEN UNCHANGED scriptVars
     ELSE ApplyCall(Call("commitPairText", result.commits[1], 0, "text", 0, <<>>, FALSE),
                    commitPairText(script, result.commits[1]), 0)

\* TextBubble.handleDoubleClick on a row
DoubleClick ==
  \E i \in 0..(Len(script.pairs) - 1) :
    LET pair == At(script.pairs, i)
    IN  IF ~isFiller(pair)
        THEN Coordinate("enterEdit", pair.id, enterEditMode(editingPairId, pair.id))
        ELSE Coordinate("ignored", pair.id, Handled(editingPairId, <<>>))

\* Escape or Shift+Enter in the textarea of a row
KeyExit ==
  \E i \in 0..(Len(script.pairs) - 1), key \in {"Escape", "ShiftEnter"} :
    LET pair == At(script.pairs, i)
    IN  Coordinate(key, pair.id, handleKeyDown(editingPairId, isEditing(pair), key))

\* Ctrl+Enter in the textarea of the row being edited: split at the cursor
KeySplit ==
  \E i \in 0..(Len(script.pairs) - 1) :
    LET pair == At(script.pairs, i)
    IN  /\ isEditing(pair)
        /\ ~isFiller(pair)
        /\ \E offset \in 1..Len(pair.text.content) :
             ApplyCall(Call("splitBubble", pair.id, 0, "text", offset, <<>>, FALSE),
                       splitBubble(script, pair.id, offset, nextId),
                       splitBubbleIds(script, pair.id, offset))
        /\ lastEvent' = Event("CtrlEnter", pair.id, editingPairId, <<>>)
        /\ UNCHANGED <<editingPairId, layoutVars, dbVars, fileVars, saveVars, bootVars>>

\* a keystroke in the textarea of the row being edited (readOnly otherwise)
Typing ==
  \E i \in 0..(Len(script.pairs) - 1), content \in Texts :
    LET pair == At(script.pairs, i)
    IN  /\ isEditing(pair)
        /\ ApplyCall(Call("updatePairText", pair.id, 0, "text", 0, content, FALSE),
                     updatePairText(script, pair.id, content), 0)
        /\ lastEvent' = Event("typing", pair.id, editingPairId, <<>>)
        /\ UNCHANGED <<editingPairId, layoutVars, dbVars, fileVars, saveVars, bootVars>>

\* mouse-down on a row (row 0: anywhere else in the document)
MouseDown ==
  \E row \in PairIds(script) :
    LET inside == row \in editingPairId
    IN  Coordinate(IF inside THEN "mouseDownInside" ELSE "mouseDownOutside", row,
                   handleMouseDown(editingPairId, inside))

NextEdit ==
  \/ DoubleClick
  \/ KeyExit
  \/ KeySplit
  \/ Typing
  \/ MouseDown

SpecEdit == Init /\ [][NextEdit]_vars

\* the edit-mode coordinator together with the mutators that change the
\* spoken side of a row; updatePairText is called by Typing only
NextEditing ==
  \/ DoubleClick
  \/ KeyExit
  \/ KeySplit
  \/ Typing
  \/ MouseDown
  \/ UpdateBubbleDuration
  \/ SplitBubble
  \/ InsertFiller
  \/ DeletePair
  \/ MergePairUp
  \/ MergePairDown

\* the editor shows a script of one row that has spoken and visual text
InitEditing ==
  /\ script = [createDefaultScript(1) EXCEPT
                 !.pairs = <<createPair(<<" ", "a", " ", "b">>, <<"x", " ", "y">>, 1)>>]
  /\ nextId = 1 + IdsPerPair
  /\ lastOp = NoCall
  /\ prevOp = NoCall
  /\ prevScript = script
  /\ prevScript2 = script
  /\ steps = 0
  /\ InitEdit
  /\ InitLayout
  /\ InitDb
  /\ InitFile
  /\ InitSave

SpecEditing == InitEditing /\ [][NextEditing]_vars

(***************************************************************************)
(* Server storage: one action per Convex function                          *)
(***************************************************************************)
Serve(fn, identity, id, result, idsUsed) ==
  /\ dbCalls < MaxCalls
  /\ db' = result.db
  /\ dbNextId' = dbNextId + idsUsed
  /\ dbCalls' = dbCalls + 1
  /\ lastCall' = ServerCall(fn, identity, id, result)
  /\ UNCHANGED <<scriptVars, editVars, layoutVars, fileVars, saveVars, bootVars>>

List ==
  \E identity \in Identities :
    Serve("list", identity, 0, list(db, identity), 0)

Get ==
  \E identity \in Identities, id \in DocIds :
    Serve("get", identity, id, get(db, identity, id), 0)

Create ==
  \E identity \in Identities, args \in CreateArgs :
    Serve("create", identity, dbNextId,
          create(db, identity, args, dbCalls + 1, dbNextId),
          IF identity = {} THEN 0 ELSE 1)

Update ==
  \E identity \in Identities, id \in DocIds, args \in UpdateArgs :
    Serve("update", identity, id, update(db, identity, id, args, dbCalls + 1), 0)

Remove ==
  \E identity \in Identities, id \in DocIds :
    Serve("remove", identity, id, remove(db, identity, id), 0)

NextDb ==
  \/ List
  \/ Get
  \/ Create
  \/ Update
  \/ Remove

SpecDb == Init /\ [][NextDb]_vars

(***************************************************************************)
(* Export to a markdown file and import of that file (Header.tsx)          *)
(***************************************************************************)
\* the scripts one editor operation makes of a script
OneEdit(s) ==
  { setTitle(s, title) : title \in Titles \cup {<<>>} }
    \cup { updatePairText(s, At(s.pairs, i).id, content) :
             i \in 0..(Len(s.pairs) - 1), content \in Texts }
    \cup { updatePairVisual(s, At(s.pairs, i).id, content) :
             i \in 0..(Len(s.pairs) - 1), content \in Visuals }
    \cup { insertFiller(s, i, FreshId) : i \in 0..Len(s.pairs) }
    \cup { mergePairDown(s, At(s.pairs, i).id) : i \in 0..(Len(s.pairs) - 1) }
    \cup { deletePair(s, At(s.pairs, i).id) : i \in 0..(Len(s.pairs) - 1) }
    \cup { splitBubble(s, At(s.pairs, i).id, offset, FreshId) :
             i \in 0..(Len(s.pairs) - 1), offset \in 1..2 }

\* scripts produced by the editor: the default and the imported one, and
\* every script one operation makes of them
EditorScripts ==
  { createDefaultScript(1), ImportedScript }
    \cup OneEdit(createDefaultScript(1)) \cup OneEdit(ImportedScript)

InitRoundTrip ==
  /\ script \in EditorScripts
  /\ nextId = FreshId + 2 * IdsPerPair
  /\ lastOp = NoCall
  /\ prevOp = NoCall
  /\ prevScript = script
  /\ prevScript2 = script
  /\ steps = 0
  /\ InitEdit
  /\ InitLayout
  /\ InitDb
  /\ InitFile
  /\ InitSave

\* handleExportMd: downloadFile(exportToMarkdown(script), ...)
ExportMarkdown ==
  /\ exportedFile' = {exportToMarkdown(script)}
  /\ UNCHANGED <<scriptVars, editVars, layoutVars, dbVars, saveVars, bootVars>>

\* handleFileSelected: onImport(parseScriptMarkdown(content)) when the file
\* is not empty
ImportMarkdown ==
  /\ exportedFile # {}
  /\ \E content \in exportedFile :
       /\ content # <<>>
       /\ ApplyCall(Call("import", 0, 0, "text", 0, <<>>, FALSE),
                    parseScriptMarkdown(content, nextId),
                    parseScriptMarkdownIds(content))
  /\ UNCHANGED <<editVars, layoutVars, dbVars, fileVars, saveVars, bootVars>>

NextRoundTrip ==
  \/ ExportMarkdown
  \/ ImportMarkdown

SpecRoundTrip == InitRoundTrip /\ [][NextRoundTrip]_vars

(***************************************************************************)
(* Splitting a row of several words                                        *)
(***************************************************************************)
\* spoken texts of four and five words: "a b c d e", "ab  cd\nef gh" and
\* " a b c d"
LongTexts ==
  { <<"a", " ", "b", " ", "c", " ", "d", " ", "e">>,
    <<"a", "b", " ", " ", "c", "d", "\n", "e", "f", " ", "g", "h">>,
    <<" ", "a", " ", "b", " ", "c", " ", "d">> }

\* a script of one row whose text was typed and committed
InitSplit ==
  /\ \E text \in LongTexts, visual \in Visuals :
       script = [createDefaultScript(1) EXCEPT !.pairs = <<createPair(text, visual, 1)>>]
  /\ nextId = 1 + IdsPerPair
  /\ lastOp = NoCall
  /\ prevOp = NoCall
  /\ prevScript = script
  /\ prevScript2 = script
  /\ steps = 0
  /\ InitEdit
  /\ InitLayout
  /\ InitDb
  /\ InitFile
  /\ InitSave

NextSplit ==
  \/ SplitBubble

SpecSplit == InitSplit /\ [][NextSplit]_vars

(***************************************************************************)
(* Auto-save: the editor over the storage provider                         *)
(***************************************************************************)
\* the file operations one session performs
MaxFileOps == 2

\* the ids the server can have given out
RealFileIds == 1..(Len(StoredFiles) + MaxFileOps)

\* the files as the list query delivers them: every listed id once, the
\* most recently updated first
Listings(ids) ==
  LET n == Cardinality(ids)
  IN  { [i \in 1..n |-> [id |-> order[i], updatedAt |-> n + 1 - i]] :
          order \in { f \in [1..n -> ids] : \A i, j \in 1..n : f[i] = f[j] => i = j } }

\* the list query has answered and the bootstrap effect has run
InitLoaded ==
  /\ convexScripts \in { {files} : files \in Listings(DOMAIN StoredFiles) }
  /\ Head(CHOOSE files \in convexScripts : TRUE).id = 1
  /\ bootstrapped = TRUE
  /\ bootOutcome = NoBoot

\* file 1 is the current file, the editor shows it as stored and its
\* auto-save timer runs; nothing else is pending
InitAutoSave ==
  /\ script = StoredFiles[1]
  /\ nextId = FreshId + 2 * IdsPerPair
  /\ lastOp = NoCall
  /\ prevOp = NoCall
  /\ prevScript = script
  /\ prevScript2 = script
  /\ steps = 0
  /\ InitEdit
  /\ InitLayout
  /\ InitDb
  /\ InitFile
  /\ InitStorage({1})
  /\ InitLoaded

\* the refs saveFile works on, and their assignment
CurrentStorage == Storage(scriptCache, saveTimers, saveLog, saveCalls)

SetStorage(st) ==
  /\ scriptCache' = st.cache
  /\ saveTimers' = st.timers
  /\ saveLog' = st.log
  /\ saveCalls' = st.calls

\* the title input changes: setTitle, and the auto-save effect runs for the
\* new script
EditTitle ==
  /\ convexScripts # {}
  /\ \E title \in Titles \ {script.title} :
       ApplyCall(Call("setTitle", 0, 0, "text", 0, <<>>, FALSE), setTitle(script, title), 0)
  /\ saveTimer' = autoSaveEffect(currentFileId)
  /\ changedUnder' = currentFileId
  /\ UNCHANGED <<editVars, layoutVars, dbVars, fileVars, bootVars>>
  /\ UNCHANGED <<currentFileId, scriptCache, saveTimers, saveLog, saveCalls, fileOps,
                 docFile, savedDoc, cacheStale, outbox, received>>

\* the auto-save timer fires: storage.saveFile(storage.currentFileId, scriptRef.current)
AutoSaveFires ==
  /\ saveTimer # {}
  /\ \E id \in saveTimer :
       /\ SetStorage(saveFile(CurrentStorage, id, script))
       /\ savedDoc' = MapSet(savedDoc, id, docFile)
  /\ saveTimer' = {}
  /\ UNCHANGED <<scriptVars, editVars, layoutVars, dbVars, fileVars, bootVars>>
  /\ UNCHANGED <<currentFileId, fileOps, changedUnder, docFile, cacheStale, outbox,
                 received>>

\* a saveFile timer fires: updateMutation({id, ...script}) is issued and the
\* timer leaves the map
SaveTimerFires ==
  /\ \E id \in DOMAIN saveTimers :
       /\ outbox' = Append(outbox, [kind |-> "update", id |-> id,
                                    script |-> saveTimers[id].script,
                                    call |-> saveTimers[id].call])
       /\ saveTimers' = MapDelete(saveTimers, id)
  /\ UNCHANGED <<scriptVars, editVars, layoutVars, dbVars, fileVars, bootVars>>
  /\ UNCHANGED <<currentFileId, scriptCache, saveLog, saveCalls, fileOps, changedUnder,
                 docFile, savedDoc, cacheStale, saveTimer, received>>

\* handleSwitchFile(id), offered by the file menu for every listed file but
\* the active one
SwitchFile ==
  /\ convexScripts # {}
  /\ fileOps < MaxFileOps
  /\ \E id \in DOMAIN received \ currentFileId :
       LET st == saveCurrent(CurrentStorage, currentFileId, script)
           loaded == IF id \in DOMAIN st.cache THEN {st.cache[id]} ELSE {}
       IN  /\ SetStorage(st)
           /\ script' = IF loaded = {} THEN script ELSE CHOOSE s \in loaded : TRUE
           /\ currentFileId' = IF loaded = {} THEN currentFileId ELSE {id}
           /\ saveTimer' = IF loaded = {} THEN saveTimer ELSE autoSaveEffect({id})
           /\ changedUnder' = IF loaded = {} THEN changedUnder ELSE {id}
           /\ docFile' = IF loaded = {} THEN docFile ELSE {id}
  /\ savedDoc' = savedCurrent(savedDoc, currentFileId, docFile)
  /\ fileOps' = fileOps + 1
  /\ UNCHANGED <<nextId, lastOp, prevScript, prevOp, prevScript2, steps>>
  /\ UNCHANGED <<editVars, layoutVars, dbVars, fileVars, bootVars>>
  /\ UNCHANGED <<cacheStale, outbox, received>>

\* handleNewScript: the current file is saved, createFile() caches the new
\* script under a temporary id and issues the create mutation
NewScript ==
  /\ convexScripts # {}
  /\ fileOps < MaxFileOps
  /\ LET st == saveCurrent(CurrentStorage, currentFileId, script)
         tempId == 0 - (fileOps + 1)
         s == createDefaultScript(nextId)
     IN  /\ SetStorage(Storage(MapSet(st.cache, tempId, s), st.timers, st.log, st.calls))
         /\ outbox' = Append(outbox, [kind |-> "create", id |-> tempId, script |-> s,
                                      call |-> 0])
         /\ script' = s
         /\ currentFileId' = {tempId}
         /\ saveTimer' = autoSaveEffect({tempId})
         /\ changedUnder' = {tempId}
         /\ docFile' = {tempId}
  /\ savedDoc' = savedCurrent(savedDoc, currentFileId, docFile)
  /\ nextId' = nextId + IdsPerPair
  /\ fileOps' = fileOps + 1
  /\ UNCHANGED <<lastOp, prevScript, prevOp, prevScript2, steps>>
  /\ UNCHANGED <<editVars, layoutVars, dbVars, fileVars, bootVars>>
  /\ UNCHANGED <<cacheStale, received>>

\* the server executes the oldest mutation of the client.  An update
\* patches the document; a create inserts it, and its promise resolves:
\* the cache entry moves to the new id and setCurrentFileIdState(convexId)
\* runs, after which the auto-save effect runs for the new current file id
Deliver ==
  /\ outbox # <<>>
  /\ LET m == Head(outbox)
         convexId == ServerId(0 - m.id)
     IN  IF m.kind = "update"
         THEN /\ received' = [received EXCEPT ![m.id] = [script |-> m.script, call |-> m.call]]
              /\ UNCHANGED <<currentFileId, scriptCache, saveTimer, docFile>>
         ELSE /\ received' = MapSet(received, convexId, [script |-> m.script, call |-> 0])
              /\ scriptCache' = MapSet(MapDelete(scriptCache, m.id), convexId, m.script)
              /\ currentFileId' = {convexId}
              /\ saveTimer' = autoSaveEffect({convexId})
              /\ docFile' = IF docFile = {m.id} THEN {convexId} ELSE docFile
  /\ outbox' = Tail(outbox)
  /\ cacheStale' = TRUE
  /\ UNCHANGED <<scriptVars, editVars, layoutVars, dbVars, fileVars, bootVars>>
  /\ UNCHANGED <<saveTimers, saveLog, saveCalls, fileOps, changedUnder, savedDoc>>

\* the list query delivers the server's documents and the cache-sync effect
\* writes each of them into the cache
SyncCache ==
  /\ cacheStale
  /\ cacheStale' = FALSE
  /\ scriptCache' = syncCache(scriptCache, received)
  /\ UNCHANGED <<scriptVars, editVars, layoutVars, dbVars, fileVars, bootVars>>
  /\ UNCHANGED <<currentFileId, saveTimers, saveLog, saveCalls, fileOps, changedUnder,
                 docFile, savedDoc, saveTimer, outbox, received>>

NextAutoSave ==
  \/ EditTitle
  \/ SwitchFile
  \/ NewScript
  \/ AutoSaveFires
  \/ SaveTimerFires
  \/ Deliver
  \/ SyncCache

SpecAutoSave == InitAutoSave /\ [][NextAutoSave]_vars

\* a timer that was set and is not cleared fires, the server executes what
\* the client sent, and the list query delivers every change
FairSpecAutoSave ==
  /\ SpecAutoSave
  /\ WF_vars(AutoSaveFires)
  /\ WF_vars(SaveTimerFires)
  /\ WF_vars(Deliver)
  /\ WF_vars(SyncCache)

(***************************************************************************)
(* Bootstrap: the first answer of the list query                           *)
(***************************************************************************)
\* [...files].sort((a, b) => b.updatedAt - a.updatedAt)[0]: the first of
\* the entries with the greatest updatedAt
latestFile(files) ==
  LET best == CHOOSE i \in DOMAIN files :
                /\ \A j \in DOMAIN files : files[j].updatedAt <= files[i].updatedAt
                /\ \A j \in 1..(i - 1) : files[j].updatedAt < files[i].updatedAt
  IN  files[best]

\* the bootstrap effect's choice: the persisted current file when the cache
\* has it, else the latest listed file when the cache has it, else a new file
bootstrapChoice(cache, current, files) ==
  IF current # {} /\ loadFile(cache, CHOOSE id \in current : TRUE) # {}
  THEN [outcome |-> "current", loaded |-> current]
  ELSE IF Len(files) > 0 /\ loadFile(cache, latestFile(files).id) # {}
       THEN [outcome |-> "latest", loaded |-> {latestFile(files).id}]
       ELSE [outcome |-> "created", loaded |-> {}]

\* the persisted current file id: none, a stored file, a file that may not
\* be stored, or a temporary id whose create never resolved in that session
PersistedIds == {{}, {1}, {2}, {0 - 1}}

\* the application mounts: the editor holds useScript()'s default script,
\* the cache is empty and the list query is loading
InitBootstrap ==
  /\ script = createDefaultScript(FreshId + 2 * IdsPerPair)
  /\ nextId = FreshId + 3 * IdsPerPair
  /\ lastOp = NoCall
  /\ prevOp = NoCall
  /\ prevScript = script
  /\ prevScript2 = script
  /\ steps = 0
  /\ InitEdit
  /\ InitLayout
  /\ InitDb
  /\ InitFile
  /\ InitLoading
  /\ currentFileId \in PersistedIds
  /\ scriptCache = <<>>
  /\ saveTimers = <<>>
  /\ saveLog = <<>>
  /\ saveCalls = 0
  /\ fileOps = 0
  /\ changedUnder = {}
  /\ docFile = {}
  /\ savedDoc = <<>>
  /\ cacheStale = FALSE
  /\ saveTimer = {}
  /\ outbox = <<>>
  /\ \E k \in 0..Len(StoredFiles) :
       received = [id \in 1..k |-> [script |-> StoredFiles[id], call |-> 0]]

\* the list query answers.  AuthenticatedApp renders with the list and
\* AppContent with isLoading false; React runs the passive effects of one
\* commit child first, so AppContent's bootstrap effect runs on the cache as
\* it is and the cache-sync effect of useStorageProvider (called in the
\* parent, AuthenticatedApp) runs after it.  The bootstrap's setScript makes
\* the auto-save effect run, now with bootstrapped.current true.
QueryLoaded ==
  /\ convexScripts = {}
  /\ \E files \in Listings(DOMAIN received) :
       LET choice == bootstrapChoice(scriptCache, currentFileId, files)
           tempId == 0 - (fileOps + 1)
           created == createDefaultScript(nextId)
           isNew == choice.outcome = "created"
           cache == IF isNew THEN MapSet(scriptCache, tempId, created) ELSE scriptCache
       IN  /\ convexScripts' = {files}
           /\ bootstrapped' = TRUE
           /\ bootOutcome' = [outcome |-> choice.outcome, persisted |-> currentFileId,
                               files |-> files, loaded |-> choice.loaded]
           /\ script' = IF isNew THEN created
                         ELSE scriptCache[CHOOSE id \in choice.loaded : TRUE]
           /\ currentFileId' = IF isNew THEN {tempId} ELSE choice.loaded
           /\ changedUnder' = currentFileId'
           /\ docFile' = currentFileId'
           /\ saveTimer' = autoSaveEffect(currentFileId')
           /\ outbox' = IF isNew
                         THEN Append(outbox, [kind |-> "create", id |-> tempId,
                                              script |-> created, call |-> 0])
                         ELSE outbox
           /\ nextId' = IF isNew THEN nextId + IdsPerPair ELSE nextId
           /\ fileOps' = IF isNew THEN fileOps + 1 ELSE fileOps
           /\ scriptCache' = syncCache(cache, received)
  /\ UNCHANGED <<lastOp, prevScript, prevOp, prevScript2, steps>>
  /\ UNCHANGED <<editVars, layoutVars, dbVars, fileVars>>
  /\ UNCHANGED <<saveTimers, saveLog, saveCalls, savedDoc, cacheStale, received>>

NextBootstrap ==
  \/ QueryLoaded
  \/ EditTitle
  \/ AutoSaveFires
  \/ SaveTimerFires
  \/ Deliver
  \/ SyncCache

SpecBootstrap == InitBootstrap /\ [][NextBootstrap]_vars

(***************************************************************************)
(* Layout: the events that change its inputs                               *)
(***************************************************************************)
\* the timeline is rendered with another document
ShowDocument ==
  /\ \E t \in Timelines : timeline' = t
  /\ UNCHANGED <<containerHeight, naturalHeight, zoom, scriptVars, editVars, dbVars, fileVars, saveVars, bootVars>>

\* ResizeObserver entry for the scroll container
SetContainerHeight ==
  /\ \E h \in Heights : containerHeight' = h
  /\ UNCHANGED <<timeline, naturalHeight, zoom, scriptVars, editVars, dbVars, fileVars, saveVars, bootVars>>

\* ResizeObserver entry for the content block
SetNaturalHeight ==
  /\ \E extra \in Extras :
       naturalHeight' = contentHeight(timeline, containerHeight, extra)
  /\ UNCHANGED <<timeline, containerHeight, zoom, scriptVars, editVars, dbVars, fileVars, saveVars, bootVars>>

\* the zoom slider
SetZoom ==
  /\ \E z \in Zooms : zoom' = clampZoom(z)
  /\ UNCHANGED <<timeline, containerHeight, naturalHeight, scriptVars, editVars, dbVars, fileVars, saveVars, bootVars>>

NextLayout ==
  \/ ShowDocument
  \/ SetContainerHeight
  \/ SetNaturalHeight
  \/ SetZoom

SpecLayout == Init /\ [][NextLayout]_vars

(***************************************************************************)
(* The visual-span invariant of the data model                             *)
(***************************************************************************)
SpanOf(p) == OrElse(p.visualSpan, 1)

\* the number of contiguous visualSpan-0 rows that immediately follow row i
ZeroRun(pairs, i) ==
  Cardinality({k \in 1..(Len(pairs) - 1 - i) :
                 \A j \in 1..k : At(pairs, i + j).visualSpan = Some(0)})

\* the first row is an owner, no span is negative, and every owner's span is
\* 1 + the zero rows that follow it: every zero row then has exactly one owner
SpanValid(pairs) ==
  /\ Len(pairs) > 0 => SpanOf(pairs[1]) # 0
  /\ \A i \in 0..(Len(pairs) - 1) :
       /\ SpanOf(At(pairs, i)) >= 0
       /\ SpanOf(At(pairs, i)) # 0 => SpanOf(At(pairs, i)) = 1 + ZeroRun(pairs, i)

\* the nearest row before index i whose visualSpan is not 0
OwnerBefore(pairs, i) ==
  CHOOSE j \in 0..(i - 1) :
    /\ SpanOf(At(pairs, j)) # 0
    /\ \A k \in (j + 1)..(i - 1) : SpanOf(At(pairs, k)) = 0

RowIds(pairs) == { pairs[k].id : k \in 1..Len(pairs) }
AllIds(pairs) ==
  RowIds(pairs) \cup { pairs[k].text.id : k \in 1..Len(pairs) }
                \cup { pairs[k].visual.id : k \in 1..Len(pairs) }

(***************************************************************************)
(* C1                                                                      *)
(***************************************************************************)
\* C1: after any sequence of insertPause, mergeVisualUp, mergeVisualDown and
\* splitVisualSpan calls from a span-valid script (any row id, rows with
\* visualSpan 0 included) the script satisfies the visual-span invariant.
C1_SpanInvariantAfterVisualOps == SpanValid(script.pairs)

(***************************************************************************)
(* C2                                                                      *)
(***************************************************************************)
C2_IsMerge == lastOp.op \in {"mergePairUp", "mergePairDown"} /\ script # prevScript

\* the index of the upper of the two merged rows
C2_UpperIndex ==
  IF lastOp.op = "mergePairUp"
  THEN findIndex(prevScript.pairs, lastOp.id) - 1
  ELSE findIndex(prevScript.pairs, lastOp.id)

\* C2: mergeUp and mergeDown applied to a span-valid script give a span-valid
\* script, the merged row's visualSpan being (a ?? 1) + (b ?? 1) - 1
\* (undefined when 1), and no row carries a negative visualSpan.
C2_MergePreservesSpanInvariant ==
  (C2_IsMerge /\ SpanValid(prevScript.pairs)) =>
    LET i == C2_UpperIndex
        a == At(prevScript.pairs, i)
        b == At(prevScript.pairs, i + 1)
    IN  /\ SpanValid(script.pairs)
        /\ At(script.pairs, i).visualSpan = NormalizeSpan(SpanOf(a) + SpanOf(b) - 1)
        /\ \A k \in 1..Len(script.pairs) : SpanOf(script.pairs[k]) >= 0

(***************************************************************************)
(* C3                                                                      *)
(***************************************************************************)

(***************************************************************************)
(* Grid placement of the cells (BubbleTimeline.tsx, grid items)            *)
(* Track numbers are 1-based as in CSS; row indices are 0-based.           *)
(***************************************************************************)
sepRow(i) == 2 * i + 1
contentRow(i) == 2 * i + 2

\* mutant: the cell also takes the separator under its last row
endRow_PastLastRow(i, span) == contentRow(i) + 2 * span

endRow(i, span) == contentRow(i) + 2 * span - 1

\* the visual cells pushed to gridItems: gridRow: `${contentRow} / ${endRow}`
visualCells(pairs) ==
  { [row |-> i, start |-> contentRow(i), stop |-> endRow(i, SpanOf(At(pairs, i)))] :
      i \in { j \in 0..(Len(pairs) - 1) : SpanOf(At(pairs, j)) # 0 } }

\* CSS grid-row: a / b places the item on the tracks from line a up to line b
CellTracks(cell) == (cell.start)..(cell.stop - 1)


IsEffectiveSplit == lastOp.op = "splitBubble" /\ script # prevScript

\* C3: an effective split of a row of a span-valid script (a row owning a
\* span > 1 and a suppressed row included) gives a span-valid script.
C3_SplitPreservesSpanInvariant ==
  (IsEffectiveSplit /\ SpanValid(prevScript.pairs)) => SpanValid(script.pairs)

(***************************************************************************)
(* C4                                                                      *)
(***************************************************************************)
C4_IsInsert ==
  /\ lastOp.op = "insertFiller"
  /\ SpanValid(prevScript.pairs)
  /\ lastOp.idx <= Len(prevScript.pairs) - 1

C4_InsideSpan == At(prevScript.pairs, lastOp.idx).visualSpan = Some(0)

\* C4: after insertPause(atIndex) on a span-valid script the row at atIndex
\* is a new pause row with its own empty visual and a visualSpan that is not
\* 0, no earlier owner's span reaches atIndex, and when the displaced row was
\* suppressed its owner's span becomes atIndex - ownerIndex while the
\* displaced row, with a fresh empty visual, owns the remaining rows.
C4_InsertPauseGetsOwnVisual ==
  C4_IsInsert =>
    LET i      == lastOp.idx
        old    == prevScript.pairs
        new    == script.pairs
        filler == At(new, i)
    IN  /\ ~lastOp.threw
        /\ Len(new) = Len(old) + 1
        /\ filler.text.type = "filler"
        /\ filler.id \notin AllIds(old)
        /\ filler.visual.id \notin AllIds(old)
        /\ filler.visual.content = <<>>
        /\ filler.visualSpan # Some(0)
        /\ \A j \in 0..(i - 1) :
             SpanOf(At(new, j)) # 0 => j + SpanOf(At(new, j)) - 1 < i
        /\ SpanValid(new)
        /\ C4_InsideSpan =>
             LET o         == OwnerBefore(old, i)
                 ownerSpan == SpanOf(At(old, o))
                 displaced == At(new, i + 1)
             IN  /\ SpanOf(At(new, o)) = i - o
                 /\ At(new, o).visualSpan # Some(1)
                 /\ SpanOf(displaced) = ownerSpan - (i - o)
                 /\ displaced.visualSpan # Some(1)
                 /\ displaced.id = At(old, i).id
                 /\ displaced.text = At(old, i).text
                 /\ displaced.visual.content = <<>>
                 /\ displaced.visual.id \notin AllIds(old)
                 /\ displaced.visual.id # filler.visual.id

\* a pause was inserted inside a span that leaves room on both sides
C4_Witness ==
  /\ C4_IsInsert
  /\ C4_InsideSpan
  /\ SpanOf(At(script.pairs, lastOp.idx + 1)) >= 2
  /\ At(script.pairs, lastOp.idx).text.type = "filler"

(***************************************************************************)
(* C5                                                                      *)
(***************************************************************************)
C5_IsUpdate ==
  /\ lastOp.op = "updateBubbleDuration"
  /\ lastOp.id \in RowIds(prevScript.pairs)

C5_SideMinimum(row, side) ==
  IF row.text.type = "filler" /\ side = "text" THEN 10 ELSE 5

C5_OtherSide(side) == IF side = "text" THEN "visual" ELSE "text"

\* C5: after updateDuration(pairId, side, seconds) the addressed bubble has
\* manualDuration = true and durationSeconds = max(seconds, sideMinimum),
\* sideMinimum being 1 s for the spoken side of a pause row and 0.5 s
\* otherwise; nothing else in the script changes.
C5_UpdateDurationClamps ==
  C5_IsUpdate =>
    LET k    == findIndex(prevScript.pairs, lastOp.id) + 1
        old  == prevScript.pairs[k]
        new  == script.pairs[k]
        side == lastOp.side
        min  == C5_SideMinimum(old, side)
    IN  /\ Len(script.pairs) = Len(prevScript.pairs)
        /\ new[side].manualDuration = Some(TRUE)
        /\ new[side].durationSeconds = Max(lastOp.val, min)
        /\ new[side].durationSeconds >= min
        /\ new[side].id = old[side].id
        /\ new[side].type = old[side].type
        /\ new[side].content = old[side].content
        /\ new[C5_OtherSide(side)] = old[C5_OtherSide(side)]
        /\ new.id = old.id
        /\ new.visualSpan = old.visualSpan
        /\ \A j \in 1..Len(script.pairs) : j # k => script.pairs[j] = prevScript.pairs[j]
        /\ script.title = prevScript.title
        /\ script.totalDurationSeconds = prevScript.totalDurationSeconds

\* a pause row was asked for less than its floor and got the floor
C5_Witness ==
  /\ C5_IsUpdate
  /\ lastOp.side = "text"
  /\ lastOp.val < 10
  /\ LET k == findIndex(script.pairs, lastOp.id) + 1
     IN  /\ script.pairs[k].text.type = "filler"
         /\ script.pairs[k].text.durationSeconds = 10

(***************************************************************************)
(* C6                                                                      *)
(***************************************************************************)
C6_IsCommit ==
  /\ lastOp.op = "commitPairText"
  /\ lastOp.id \in RowIds(prevScript.pairs)

\* C6: commitText(pairId) sets the spoken duration to
\* max(estimateDuration(content), 0.5 s) when manualDuration is not set and
\* leaves it when manualDuration is true; so neither updateText nor commitText
\* ever changes a pinned duration.
C6_CommitRespectsManualDuration ==
  /\ C6_IsCommit =>
       LET k   == findIndex(prevScript.pairs, lastOp.id) + 1
           old == prevScript.pairs[k]
           new == script.pairs[k]
       IN  /\ Len(script.pairs) = Len(prevScript.pairs)
           /\ old.text.manualDuration # Some(TRUE) =>
                new.text.durationSeconds = Max(estimateDuration(old.text.content), 5)
           /\ old.text.manualDuration = Some(TRUE) =>
                new.text.durationSeconds = old.text.durationSeconds
           /\ new.text.content = old.text.content
  /\ lastOp.op \in {"updatePairText", "commitPairText"} =>
       /\ Len(script.pairs) = Len(prevScript.pairs)
       /\ \A j \in 1..Len(prevScript.pairs) :
            prevScript.pairs[j].text.manualDuration = Some(TRUE) =>
              /\ script.pairs[j].text.manualDuration = Some(TRUE)
              /\ script.pairs[j].text.durationSeconds
                   = prevScript.pairs[j].text.durationSeconds

\* a text row pinned by updateDuration was committed and kept a duration that
\* re-estimation would have changed
C6_Witness ==
  /\ C6_IsCommit
  /\ prevOp.op = "updateBubbleDuration"
  /\ prevOp.side = "text"
  /\ prevOp.id = lastOp.id
  /\ LET row == script.pairs[findIndex(script.pairs, lastOp.id) + 1]
     IN  /\ row.text.type = "text"
         /\ row.text.durationSeconds = prevOp.val
         /\ row.text.durationSeconds # Max(estimateDuration(row.text.content), 5)

(***************************************************************************)
(* C7                                                                      *)
(***************************************************************************)
C7_IsUpdateText ==
  /\ lastOp.op = "updatePairText"
  /\ lastOp.id \in RowIds(prevScript.pairs)

\* C7: updateText(pairId, content) changes only the spoken content of the
\* addressed row; its duration, manualDuration, kind, ids, visual bubble and
\* visualSpan, every other row, the title and the total are unchanged.
C7_UpdateTextChangesContentOnly ==
  C7_IsUpdateText =>
    LET k   == findIndex(prevScript.pairs, lastOp.id) + 1
        old == prevScript.pairs[k]
        new == script.pairs[k]
    IN  /\ Len(script.pairs) = Len(prevScript.pairs)
        /\ new.text.content = lastOp.str
        /\ new.text.durationSeconds = old.text.durationSeconds
        /\ new.text.manualDuration = old.text.manualDuration
        /\ new.text.type = old.text.type
        /\ new.text.id = old.text.id
        /\ new.id = old.id
        /\ new.visual = old.visual
        /\ new.visualSpan = old.visualSpan
        /\ \A j \in 1..Len(script.pairs) : j # k => script.pairs[j] = prevScript.pairs[j]
        /\ script.title = prevScript.title
        /\ script.totalDurationSeconds = prevScript.totalDurationSeconds

\* the content of an unpinned row was replaced by text whose estimate differs
\* from the stored duration
C7_Witness ==
  /\ C7_IsUpdateText
  /\ LET k == findIndex(script.pairs, lastOp.id) + 1
     IN  /\ script.pairs[k].text.content # prevScript.pairs[k].text.content
         /\ script.pairs[k].text.manualDuration = Undefined
         /\ script.pairs[k].text.durationSeconds
              # Max(estimateDuration(script.pairs[k].text.content), 5)

(***************************************************************************)
(* C8                                                                      *)
(***************************************************************************)
\* the precondition 0 < charOffset < length(content) with non-empty trimmed
\* text on both sides does not hold for the call lastOp
C8_PreconditionFails ==
  LET content == ContentOf(prevScript, lastOp.id)
      off     == lastOp.val
  IN  \/ lastOp.id \notin RowIds(prevScript.pairs)
      \/ off <= 0
      \/ off >= Len(content)
      \/ Trim(SubSeq(content, 1, off)) = <<>>
      \/ Trim(SubSeq(content, off + 1, Len(content))) = <<>>

\* C8: split(pairId, charOffset) returns the script unchanged whenever
\* charOffset <= 0 (negative offsets included), charOffset >= length(content),
\* the pairId is unknown, or a trimmed side is empty.
C8_SplitRejectedOutsidePrecondition ==
  (lastOp.op = "splitBubble" /\ C8_PreconditionFails) => script = prevScript

(***************************************************************************)
(* C9                                                                      *)
(***************************************************************************)
\* the position String.prototype.slice cuts at for the offset of lastOp
C9_CutPoint(content) ==
  IF lastOp.val < 0 THEN Max(Len(content) + lastOp.val, 0)
  ELSE Min(lastOp.val, Len(content))

\* C9: an effective split of row i replaces it by two consecutive rows at i
\* and i+1, all other rows unchanged and in order; their spoken contents are
\* the trimmed text before and after the offset, their durations are
\* max(estimateDuration(content), 0.5 s) with manualDuration cleared, and
\* their row ids differ from every id already in the script.
C9_SplitMakesTwoFreshRows ==
  IsEffectiveSplit =>
    LET old     == prevScript.pairs
        new     == script.pairs
        i       == findIndex(old, lastOp.id)
        content == At(old, i).text.content
        cut     == C9_CutPoint(content)
        first   == At(new, i)
        second  == At(new, i + 1)
    IN  /\ i >= 0
        /\ Len(new) = Len(old) + 1
        /\ \A j \in 0..(i - 1) : At(new, j) = At(old, j)
        /\ \A j \in (i + 1)..(Len(old) - 1) : At(new, j + 1) = At(old, j)
        /\ first.text.content = Trim(SubSeq(content, 1, cut))
        /\ second.text.content = Trim(SubSeq(content, cut + 1, Len(content)))
        /\ first.text.content # <<>> /\ second.text.content # <<>>
        /\ first.text.durationSeconds = Max(estimateDuration(first.text.content), 5)
        /\ second.text.durationSeconds = Max(estimateDuration(second.text.content), 5)
        /\ first.text.manualDuration = Undefined
        /\ second.text.manualDuration = Undefined
        /\ first.id \notin AllIds(old)
        /\ second.id \notin AllIds(old)
        /\ first.id # second.id
        /\ script.title = prevScript.title
        /\ script.totalDurationSeconds = prevScript.totalDurationSeconds

\* a pinned row between other rows was split at an offset inside its text
C9_Witness ==
  /\ IsEffectiveSplit
  /\ LET i == findIndex(prevScript.pairs, lastOp.id)
     IN  /\ i >= 0 /\ i < Len(prevScript.pairs) - 1
         /\ lastOp.val > 0
         /\ lastOp.val < Len(At(prevScript.pairs, i).text.content)
         /\ At(prevScript.pairs, i).text.manualDuration = Some(TRUE)
         /\ At(script.pairs, i).id # At(prevScript.pairs, i).id

(***************************************************************************)
(* C10                                                                     *)
(***************************************************************************)
\* the last two calls were an effective split and mergeUp on its second row
C10_IsSplitThenMergeUp ==
  /\ prevOp.op = "splitBubble"
  /\ prevScript # prevScript2
  /\ lastOp.op = "mergePairUp"
  /\ lastOp.id = At(prevScript.pairs, findIndex(prevScript2.pairs, prevOp.id) + 1).id

\* C10: split followed by mergeUp on the second resulting row gives the
\* original number of rows, the position holding one row whose spoken content
\* is the two trimmed fragments joined by one newline; its id is not the
\* original row's id.
C10_SplitThenMergeUpRoundTrip ==
  C10_IsSplitThenMergeUp =>
    LET orig    == prevScript2.pairs
        i       == findIndex(orig, prevOp.id)
        content == At(orig, i).text.content
        cut     == IF prevOp.val < 0 THEN Max(Len(content) + prevOp.val, 0)
                   ELSE Min(prevOp.val, Len(content))
        before  == Trim(SubSeq(content, 1, cut))
        after   == Trim(SubSeq(content, cut + 1, Len(content)))
    IN  /\ Len(script.pairs) = Len(orig)
        /\ At(script.pairs, i).text.content = before \o <<"\n">> \o after
        /\ At(script.pairs, i).id # At(orig, i).id
        /\ \A j \in 0..(Len(orig) - 1) :
             j # i => At(script.pairs, j).text.content = At(orig, j).text.content

\* a row was split inside its text and the second half merged back up
C10_Witness ==
  /\ C10_IsSplitThenMergeUp
  /\ prevOp.val > 0
  /\ Len(script.pairs) = Len(prevScript2.pairs)
  /\ Len(script.pairs) >= 2

(***************************************************************************)
(* C11                                                                     *)
(***************************************************************************)
C11_IsMergeCall == lastOp.op \in {"mergePairUp", "mergePairDown"}

\* the index of the upper of the two rows the call addresses; -1 when the
\* id is unknown or the row has no neighbour on that side
C11_UpperIndex ==
  LET idx == findIndex(prevScript.pairs, lastOp.id)
  IN  IF idx = -1 THEN -1
      ELSE IF lastOp.op = "mergePairUp" THEN idx - 1
      ELSE IF idx = Len(prevScript.pairs) - 1 THEN -1
      ELSE idx

\* the non-empty ones of two strings, joined by a newline
C11_Joined(a, b) ==
  IF a # <<>> /\ b # <<>> THEN a \o <<"\n">> \o b
  ELSE IF a # <<>> THEN a
  ELSE b

\* C11: mergeUp on a row with index >= 1 and mergeDown on a row that is not
\* last replace the two rows by one whose spoken and visual contents are the
\* non-empty parts joined by a newline in timeline order and whose spoken
\* duration is max(estimateDuration(mergedText), 0.5 s) with manualDuration
\* cleared; at the first / last row and on an unknown id the script is
\* returned unchanged.
C11_MergeJoinsAdjacentRows ==
  C11_IsMergeCall =>
    LET u   == C11_UpperIndex
        old == prevScript.pairs
        new == script.pairs
    IN  IF u = -1 THEN script = prevScript
        ELSE
          LET a == At(old, u)
              b == At(old, u + 1)
              m == At(new, u)
          IN  /\ Len(new) = Len(old) - 1
              /\ m.text.content = C11_Joined(a.text.content, b.text.content)
              /\ m.visual.content = C11_Joined(a.visual.content, b.visual.content)
              /\ m.text.durationSeconds = Max(estimateDuration(m.text.content), 5)
              /\ m.text.manualDuration # Some(TRUE)
              /\ \A j \in 0..(u - 1) : At(new, j) = At(old, j)
              /\ \A j \in (u + 2)..(Len(old) - 1) : At(new, j - 1) = At(old, j)
              /\ script.title = prevScript.title
              /\ script.totalDurationSeconds = prevScript.totalDurationSeconds

\* two rows with text were merged although the upper one was pinned to a
\* duration other than the estimate of the merged text
C11_Witness ==
  /\ C11_IsMergeCall
  /\ C11_UpperIndex >= 0
  /\ LET a == At(prevScript.pairs, C11_UpperIndex)
         b == At(prevScript.pairs, C11_UpperIndex + 1)
     IN  /\ a.text.manualDuration = Some(TRUE)
         /\ a.text.content # <<>> /\ b.text.content # <<>>
         /\ a.text.durationSeconds
              # Max(estimateDuration(C11_Joined(a.text.content, b.text.content)), 5)

(***************************************************************************)
(* C12                                                                     *)
(***************************************************************************)
C12_IsCall == lastOp.op = "splitVisualSpan"

\* the row at atPairIndex exists and is suppressed
C12_TargetSuppressed ==
  /\ lastOp.idx < Len(prevScript.pairs)
  /\ At(prevScript.pairs, lastOp.idx).visualSpan = Some(0)

\* some row before the target has a visualSpan that is not 0
C12_HasOwner ==
  \E j \in 0..(lastOp.idx - 1) : SpanOf(At(prevScript.pairs, j)) # 0

\* C12: splitVisualSpan(atPairIndex) returns the script unchanged unless the
\* row at atPairIndex exists and has visualSpan 0; otherwise the nearest
\* preceding row whose visualSpan is not 0 gets span atPairIndex - ownerIndex
\* and the target a fresh empty visual with span ownerSpan - (atPairIndex -
\* ownerIndex), each undefined when 1; the two sum to the owner's old span,
\* and the spoken track and all other rows are unchanged.
C12_SplitVisualSpanDividesSpan ==
  C12_IsCall =>
    LET at  == lastOp.idx
        old == prevScript.pairs
        new == script.pairs
    IN  /\ ~C12_TargetSuppressed => script = prevScript
        /\ (C12_TargetSuppressed /\ C12_HasOwner) =>
             LET o         == OwnerBefore(old, at)
                 ownerSpan == SpanOf(At(old, o))
             IN  /\ ~lastOp.threw
                 /\ Len(new) = Len(old)
                 /\ SpanOf(At(new, o)) = at - o
                 /\ SpanOf(At(new, at)) = ownerSpan - (at - o)
                 /\ At(new, o).visualSpan # Some(1)
                 /\ At(new, at).visualSpan # Some(1)
                 /\ SpanOf(At(new, o)) + SpanOf(At(new, at)) = ownerSpan
                 /\ At(new, at).visual.content = <<>>
                 /\ At(new, at).visual.id \notin AllIds(old)
                 /\ At(new, at).id = At(old, at).id
                 /\ At(new, o).id = At(old, o).id
                 /\ At(new, o).visual = At(old, o).visual
                 /\ \A j \in 0..(Len(old) - 1) :
                      /\ At(new, j).text = At(old, j).text
                      /\ (j # o /\ j # at) => At(new, j) = At(old, j)
                 /\ script.title = prevScript.title
                 /\ script.totalDurationSeconds = prevScript.totalDurationSeconds

\* a span of three rows was cut after its first row
C12_Witness ==
  /\ C12_IsCall
  /\ C12_TargetSuppressed
  /\ C12_HasOwner
  /\ SpanValid(prevScript.pairs)
  /\ SpanOf(At(script.pairs, lastOp.idx)) = 2
  /\ At(script.pairs, OwnerBefore(prevScript.pairs, lastOp.idx)).visualSpan = Undefined

(***************************************************************************)
(* C13                                                                     *)
(***************************************************************************)
\* the rows the timeline renders with isEditing = true
C13_EditingRows ==
  { i \in 0..(Len(script.pairs) - 1) : isEditing(At(script.pairs, i)) }

\* enterEdit(B) was raised while a different row A was being edited
C13_EnterWhileOtherEditing ==
  /\ lastEvent.kind = "enterEdit"
  /\ lastEvent.before # {}
  /\ lastEvent.before # {lastEvent.row}

\* C13: at most one row is reported as editing in every reachable state, and
\* whenever enterEdit(B) is raised while a different row A is being edited,
\* exactly one commitText(A) is applied to the script and editingId is B
\* afterwards.
C13_SingleEditorAndCommitOnSwitch ==
  /\ Cardinality(C13_EditingRows) <= 1
  /\ Cardinality(editingPairId) <= 1
  /\ C13_EnterWhileOtherEditing =>
       /\ Len(lastEvent.commits) = 1
       /\ lastEvent.before = {lastEvent.commits[1]}
       /\ editingPairId = {lastEvent.row}
       /\ lastOp.op = "commitPairText"
       /\ lastOp.id = lastEvent.commits[1]
       /\ script = commitPairText(prevScript, lastEvent.commits[1])

\* the switch committed a text that had been typed and not yet re-estimated
C13_Witness ==
  /\ C13_EnterWhileOtherEditing
  /\ Cardinality(C13_EditingRows) = 1
  /\ script # prevScript

(***************************************************************************)
(* C14                                                                     *)
(***************************************************************************)
C14_IsExitTrigger ==
  lastEvent.kind \in {"Escape", "ShiftEnter", "mouseDownOutside"}

\* the key events count as exits of the row they are raised on
C14_ExitsEditingRow ==
  /\ C14_IsExitTrigger
  /\ lastEvent.before # {}
  /\ lastEvent.kind \in {"Escape", "ShiftEnter"} => lastEvent.before = {lastEvent.row}

\* C14: every exit from edit mode of a row A (Escape, Shift+Enter, mouse-down
\* outside the editing bubble) applies commitText(A) exactly once and then
\* sets editingId to null; a mouse-down inside the editing bubble neither
\* commits nor changes editingId; an exit trigger raised while no row is
\* being edited commits nothing.
C14_ExitCommitsOnce ==
  /\ C14_ExitsEditingRow =>
       /\ Len(lastEvent.commits) = 1
       /\ lastEvent.before = {lastEvent.commits[1]}
       /\ editingPairId = {}
       /\ lastOp.op = "commitPairText"
       /\ lastOp.id = lastEvent.commits[1]
       /\ script = commitPairText(prevScript, lastEvent.commits[1])
  /\ lastEvent.kind = "mouseDownInside" =>
       /\ lastEvent.commits = <<>>
       /\ editingPairId = lastEvent.before
  /\ (C14_IsExitTrigger /\ lastEvent.before = {}) =>
       /\ lastEvent.commits = <<>>
       /\ editingPairId = {}

\* a mouse-down outside the editing bubble committed a typed text
C14_Witness ==
  /\ lastEvent.kind = "mouseDownOutside"
  /\ C14_ExitsEditingRow
  /\ script # prevScript

(***************************************************************************)
(* C15                                                                     *)
(***************************************************************************)
\* the ResizeObserver has reported the height of the layout on screen
C15_Measured ==
  \E extra \in Extras : naturalHeight = contentHeight(timeline, containerHeight, extra)

C15_Rendered == renderedHeight(naturalHeight, containerHeight, zoom)

C15_Overflows ==
  RatLt(RatInt(containerHeight), naturalHeight) /\ containerHeight > 0

C16_CellsOf(i) == { c \in visualCells(script.pairs) : c.row = i }

C16_SpanTracks(i, n) ==
  { contentRow(j) : j \in i..(i + n - 1) } \cup { sepRow(j) : j \in (i + 1)..(i + n - 1) }

\* C16: for every span-valid script the visual cells tile the visual column:
\* a row with visualSpan 0 renders no visual cell; row i with span N renders
\* one cell that starts on the grid row of row i's spoken cell and covers
\* exactly the content rows i..i+N-1 and the N-1 separators between them;
\* every row's content track is covered by exactly one visual cell and no
\* cell reaches past the last row.
C16_VisualCellsTileColumn ==
  SpanValid(script.pairs) =>
    LET rows == 0..(Len(script.pairs) - 1)
        cells == visualCells(script.pairs)
    IN  /\ \A i \in rows :
             LET n == SpanOf(At(script.pairs, i))
             IN  IF n = 0 THEN C16_CellsOf(i) = {}
                 ELSE /\ Cardinality(C16_CellsOf(i)) = 1
                      /\ \A c \in C16_CellsOf(i) :
                           /\ c.start = contentRow(i)
                           /\ CellTracks(c) = C16_SpanTracks(i, n)
        /\ \A j \in rows :
             Cardinality({ c \in cells : contentRow(j) \in CellTracks(c) }) = 1
        /\ \A c \in cells, d \in cells :
             c # d => CellTracks(c) \cap CellTracks(d) = {}
        /\ \A c \in cells :
             \A k \in CellTracks(c) : k <= contentRow(Len(script.pairs) - 1)

\* a span-valid script made by the visual operations, with a span of two or
\* more rows and a further owner after it
C16_Witness ==
  /\ SpanValid(script.pairs)
  /\ lastOp.op \in {"mergeVisualUp", "mergeVisualDown", "splitVisualSpan", "insertFiller"}
  /\ \E i \in 0..(Len(script.pairs) - 1) : SpanOf(At(script.pairs, i)) >= 2
  /\ Cardinality(visualCells(script.pairs)) >= 2

(***************************************************************************)
(* C17                                                                     *)
(***************************************************************************)
\* the caller of the last call is the owner of the stored script id
C17_CallerOwns(id) ==
  /\ id \in DOMAIN lastCall.before
  /\ lastCall.identity = {lastCall.before[id].userId}

\* the stored scripts the last call modified or deleted
C17_Touched ==
  { i \in DOMAIN lastCall.before : i \notin DOMAIN db \/ db[i] # lastCall.before[i] }

\* the stored scripts the last call returned
C17_ReturnedDocs ==
  IF lastCall.fn = "get" THEN lastCall.value
  ELSE IF lastCall.fn = "list" THEN { lastCall.value[k] : k \in 1..Len(lastCall.value) }
  ELSE {}

\* C17: a stored script is returned, modified or deleted only by calls whose
\* authenticated identity equals the script's userId: get on another user's
\* script returns null; update and remove on another user's or a missing
\* script fail with "Not found" and leave the database unchanged; list
\* returns only the caller's scripts; unauthenticated create, update and
\* remove fail without changing the database.
C17_StorageIsolation ==
  /\ \A i \in C17_Touched : C17_CallerOwns(i)
  /\ \A d \in C17_ReturnedDocs :
       /\ lastCall.identity = {d.userId}
       /\ d.id \in DOMAIN lastCall.before
       /\ lastCall.before[d.id] = d
  /\ (lastCall.fn = "get" /\ ~C17_CallerOwns(lastCall.id)) =>
       /\ lastCall.ok
       /\ lastCall.value = {}
  /\ (lastCall.fn \in {"update", "remove"} /\ ~C17_CallerOwns(lastCall.id)) =>
       /\ ~lastCall.ok
       /\ lastCall.identity # {} => lastCall.error = "Not found"
       /\ db = lastCall.before
  /\ (lastCall.fn \in {"create", "update", "remove"} /\ lastCall.identity = {}) =>
       /\ ~lastCall.ok
       /\ db = lastCall.before
  /\ lastCall.fn \in {"get", "list"} => db = lastCall.before
  /\ (lastCall.fn = "create" /\ lastCall.ok) =>
       /\ DOMAIN db = DOMAIN lastCall.before \cup {lastCall.value}
       /\ lastCall.value \notin DOMAIN lastCall.before
       /\ lastCall.identity = {db[lastCall.value].userId}

\* an authenticated user tried to update or remove another user's script
C17_Witness ==
  /\ lastCall.fn \in {"update", "remove"}
  /\ lastCall.identity # {}
  /\ lastCall.id \in DOMAIN lastCall.before
  /\ ~C17_CallerOwns(lastCall.id)
  /\ lastCall.error = "Not found"

(***************************************************************************)
(* C18                                                                     *)
(***************************************************************************)
RECURSIVE C18_Words(_)
\* the words of a content: equality of contents up to whitespace
C18_Words(content) ==
  LET t == Trim(content)
  IN  IF t = <<>> THEN <<>>
      ELSE LET stops == { j \in 1..Len(t) : IsWs(t[j]) }
               stop == IF stops = {} THEN Len(t) + 1 ELSE Least(stops)
           IN  <<SubSeq(t, 1, stop - 1)>> \o C18_Words(SubSeq(t, stop, Len(t)))

\* the script was imported from the export of the script before it
C18_IsRoundTrip ==
  /\ lastOp.op = "import"
  /\ exportedFile = {exportToMarkdown(prevScript)}

\* C18: for every script produced by the editor, pause rows, rows with empty
\* spoken text and multi-line visual content included,
\* parseScriptMarkdown(exportToMarkdown(s)) has the same title and the same
\* ordered rows with equal spoken and visual content, up to whitespace.
C18_ExportImportRoundTrip ==
  C18_IsRoundTrip =>
    /\ script.title = prevScript.title
    /\ Len(script.pairs) = Len(prevScript.pairs)
    /\ \A k \in 1..Min(Len(script.pairs), Len(prevScript.pairs)) :
         /\ C18_Words(script.pairs[k].text.content)
              = C18_Words(prevScript.pairs[k].text.content)
         /\ C18_Words(script.pairs[k].visual.content)
              = C18_Words(prevScript.pairs[k].visual.content)

(***************************************************************************)
(* C19                                                                     *)
(***************************************************************************)
\* the maximal runs of non-whitespace characters of a text, by their ends
C19_Runs(text) ==
  Cardinality({ i \in 1..Len(text) :
                  /\ ~IsWs(text[i])
                  /\ (i = Len(text) \/ IsWs(text[i + 1])) })

C19_Original ==
  At(prevScript.pairs, findIndex(prevScript.pairs, lastOp.id)).text.content

\* the cut falls next to a whitespace character
C19_AtWhitespaceBoundary ==
  LET c == C9_CutPoint(C19_Original)
  IN  /\ c >= 1
      /\ c < Len(C19_Original)
      /\ (IsWs(C19_Original[c]) \/ IsWs(C19_Original[c + 1]))

C19_First == At(script.pairs, findIndex(prevScript.pairs, lastOp.id)).text
C19_Second == At(script.pairs, findIndex(prevScript.pairs, lastOp.id) + 1).text

\* C19: estimateDuration(t) = countWords(t) / 150 * 60 where countWords
\* counts the maximal runs of non-whitespace characters (0 for an empty or
\* whitespace-only text); for a split at a whitespace boundary the word
\* counts of the two fragments sum to the word count of the original, so
\* when neither fragment is clamped by the 0.5 s floor the two new durations
\* sum to the original's estimated duration.
C19_SplitConservesDuration ==
  /\ \A k \in 1..Len(script.pairs) :
       LET t == script.pairs[k].text.content
       IN  /\ countWords(t) = C19_Runs(t)
           /\ estimateDuration(t) * WORDS_PER_MINUTE = countWords(t) * 60 * 10
  /\ (IsEffectiveSplit /\ C19_AtWhitespaceBoundary) =>
       /\ countWords(C19_First.content) + countWords(C19_Second.content)
            = countWords(C19_Original)
       /\ (/\ estimateDuration(C19_First.content) >= MinTextDuration
           /\ estimateDuration(C19_Second.content) >= MinTextDuration) =>
            C19_First.durationSeconds + C19_Second.durationSeconds
              = estimateDuration(C19_Original)

\* five words (2.0 s) split into three words (1.2 s) and two (0.8 s)
C19_Witness ==
  /\ IsEffectiveSplit
  /\ C19_AtWhitespaceBoundary
  /\ countWords(C19_Original) = 5
  /\ C19_First.durationSeconds = 12
  /\ C19_Second.durationSeconds = 8


\* ---- C20 ----
\* the last saveFile call for file id carried the script the editor shows
C20_SaveFileCalled(id) ==
  id \in DOMAIN saveLog /\ saveLog[id].script = script

\* the update mutations issued for file id and not yet executed
C20_Issued(id) == SelectSeq(outbox, LAMBDA m : m.kind = "update" /\ m.id = id)

\* the last update mutation issued for file id carried the script the
\* editor shows
C20_UpdateIssued(id) ==
  IF C20_Issued(id) # <<>>
  THEN C20_Issued(id)[Len(C20_Issued(id))].script = script
  ELSE received[id].call > 0 /\ received[id].script = script

\* C20, ordering: for one file id, the saveFile call numbers of the
\* document the server holds, of the updates issued and of the pending timer
\* strictly increase, so no value of an older saveFile call reaches the
\* server after the value of a newer one.
C20_SavesArriveInOrder ==
  \A id \in DOMAIN received :
    LET pending == IF id \in DOMAIN saveTimers THEN <<saveTimers[id].call>> ELSE <<>>
        calls == <<received[id].call>>
                   \o [i \in DOMAIN C20_Issued(id) |-> C20_Issued(id)[i].call]
                   \o pending
    IN  \A i, j \in DOMAIN calls : i < j => calls[i] < calls[j]

\* the script last changed while the current file id was a real one
C20_ChangedUnderRealId ==
  \E id \in changedUnder : ~IsPending(id)

\* the file the script last changed under has been handed that script
C20_Saved ==
  \A id \in changedUnder :
    ~IsPending(id) => C20_SaveFileCalled(id) /\ C20_UpdateIssued(id)

\* C20, liveness: after the script has changed while the current file id
\* is a real one, eventually (once the changes have stopped) saveFile has
\* been called for that file id with the script the editor shows, and an
\* update mutation carrying it has been issued.
C20_AutoSaveLiveness == C20_ChangedUnderRealId ~> C20_Saved

\* ---- C21 ----
\* the ids the list query delivered to the bootstrap effect
C21_Stored == { bootOutcome.files[i].id : i \in DOMAIN bootOutcome.files }

\* the bootstrap effect has just run: nothing has been edited or delivered
C21_JustBootstrapped ==
  /\ bootOutcome.outcome # "none"
  /\ steps = 0
  /\ \A id \in DOMAIN received : received[id].call = 0

\* the stored script of the file the bootstrap loaded is the editor's document
C21_ShowsLoaded ==
  \A id \in bootOutcome.loaded :
    currentFileId = {id} /\ (C21_JustBootstrapped => script = received[id].script)

\* C21: the bootstrap effect runs when the list query has answered, and
\* only then; it loads the persisted current file when that file is stored,
\* else the most recently updated stored file, and creates a new default
\* file only when no file is stored.
C21_BootstrapLoadsStoredFile ==
  /\ bootstrapped <=> convexScripts # {}
  /\ bootstrapped <=> bootOutcome.outcome # "none"
  /\ bootstrapped =>
       IF bootOutcome.persisted # {} /\ bootOutcome.persisted \subseteq C21_Stored
       THEN /\ bootOutcome.outcome = "current"
            /\ bootOutcome.loaded = bootOutcome.persisted
            /\ C21_JustBootstrapped => C21_ShowsLoaded
       ELSE IF C21_Stored # {}
            THEN /\ bootOutcome.outcome = "latest"
                 /\ bootOutcome.loaded = {latestFile(bootOutcome.files).id}
                 /\ C21_JustBootstrapped => C21_ShowsLoaded
            ELSE bootOutcome.outcome = "created"

\* ---- C22 ----
\* C22: no cross-file write: the script of every saveFile(id, script) call
\* is the editor's document of file id, that is a document created as,
\* loaded from or edited as that file.
C22_NoCrossFileWrite ==
  \A id \in DOMAIN savedDoc : savedDoc[id] = {id}

\* ---- C23 ----
\* some row of the script is in edit mode
C23_SomeRowEditing ==
  \E k \in DOMAIN script.pairs : isEditing(script.pairs[k])

\* the duration of the spoken bubble is the one derived from its content
C23_Derived(pair) ==
  pair.text.durationSeconds = Max(estimateDuration(pair.text.content), MinTextDuration)

\* C23: whenever no row is in edit mode, every text row whose duration was
\* not set by hand has the duration derived from its content.
C23_DerivedDurationConsistent ==
  ~C23_SomeRowEditing =>
    \A k \in DOMAIN script.pairs :
      LET pair == script.pairs[k]
      IN  (~isFiller(pair) /\ pair.text.manualDuration # {TRUE}) => C23_Derived(pair)

\* a row was typed in while editing, its duration went stale, and leaving
\* edit mode has derived it again
C23_Witness ==
  /\ lastOp.op = "commitPairText"
  /\ prevOp.op = "updatePairText"
  /\ ~C23_SomeRowEditing
  /\ \E k \in DOMAIN script.pairs :
       /\ script.pairs[k].id = lastOp.id
       /\ ~isFiller(script.pairs[k])
       /\ script.pairs[k].text.manualDuration # {TRUE}
       /\ C23_Derived(script.pairs[k])
       /\ k \in DOMAIN prevScript.pairs
       /\ ~C23_Derived(prevScript.pairs[k])

\* ---- C24 ----
\* C24: every row whose spoken bubble is a pause has empty spoken content
\* and a duration set by hand.
C24_PauseRowsStayPauses ==
  \A k \in DOMAIN script.pairs :
    isFiller(script.pairs[k]) =>
      /\ script.pairs[k].text.content = <<>>
      /\ script.pairs[k].text.manualDuration = {TRUE}

\* ---- C25 ----
\* C25: the span-owner lookup of insertFiller and splitVisualSpan finds an
\* existing row, so neither call fails.
C25_OwnerLookupResolves ==
  lastOp.op \in {"insertFiller", "splitVisualSpan"} => ~lastOp.threw

\* ---- C26 ----
\* C26: the script always has at least one row, so a row with its insert
\* and edit controls is always shown.
C26_AtLeastOneRow == Len(script.pairs) >= 1

\* ---- C27 ----
\* C27: whenever editingPairId is set, it is the id of a row of the script
\* and that row is a text row.
C27_EditingRowExists ==
  \A e \in editingPairId :
    \E k \in DOMAIN script.pairs :
      script.pairs[k].id = e /\ ~isFiller(script.pairs[k])

\* ---- C28 ----
\* the row the last visual merge was invoked on, as an index of prevScript
C28_Index == findIndex(prevScript.pairs, lastOp.id)

\* the owner that absorbs and the cell that is absorbed, as indices
C28_Owner ==
  IF lastOp.op = "mergeVisualDown" THEN C28_Index
  ELSE walkUp(prevScript.pairs, C28_Index - 1)

C28_Absorbed ==
  IF lastOp.op = "mergeVisualDown"
  THEN C28_Index + SpanOf(At(prevScript.pairs, C28_Index))
  ELSE C28_Index

\* the last call was a visual merge invoked on a rendered visual cell that
\* has a neighbouring group on the side of the merge
C28_Invoked ==
  /\ lastOp.op \in {"mergeVisualUp", "mergeVisualDown"}
  /\ ~lastOp.threw
  /\ C28_Index >= 0
  /\ SpanValid(prevScript.pairs)
  /\ SpanOf(At(prevScript.pairs, C28_Index)) # 0
  /\ C28_Absorbed < Len(prevScript.pairs)
  /\ C28_Owner >= 0

\* the number of rendered visual cells
C28_Cells(s) == Cardinality({k \in DOMAIN s.pairs : SpanOf(s.pairs[k]) # 0})

\* C28: a visual merge on a rendered cell that has a neighbouring group on
\* the side of the merge absorbs exactly that group: one rendered cell fewer,
\* the owner's content joined once with the absorbed cell's content, and the
\* owner's span extended by the absorbed group's span.
C28_VisualMergeAbsorbsOneGroup ==
  C28_Invoked =>
    /\ C28_Cells(script) = C28_Cells(prevScript) - 1
    /\ Len(script.pairs) = Len(prevScript.pairs)
    /\ LET owner == At(prevScript.pairs, C28_Owner)
           absorbed == At(prevScript.pairs, C28_Absorbed)
           merged == At(script.pairs, C28_Owner)
       IN  /\ merged.visual.content =
                JoinNonEmpty(owner.visual.content, absorbed.visual.content)
           /\ SpanOf(merged) = SpanOf(owner) + SpanOf(absorbed)
           /\ SpanOf(At(script.pairs, C28_Absorbed)) = 0

\* ---- C29 ----
\* mergeUp on row i and mergeDown on row i - 1 of a script give the same script
C29_SameMerge(s, i) ==
  mergePairUp(s, At(s.pairs, i).id) = mergePairDown(s, At(s.pairs, i - 1).id)

\* C29: mergeUp and mergeDown are two views of one operation: for every
\* index i >= 1 of the script, mergeUp on row i and mergeDown on row i - 1
\* produce identical scripts, and a merge that was just made from either
\* side left the script the other side would have left.
C29_MergeUpIsMergeDown ==
  /\ \A i \in 1..(Len(script.pairs) - 1) : C29_SameMerge(script, i)
  /\ lastOp.op \in {"mergePairUp", "mergePairDown"} =>
       LET idx == findIndex(prevScript.pairs, lastOp.id)
           i == IF lastOp.op = "mergePairUp" THEN idx ELSE idx + 1
       IN  (idx >= 0 /\ i >= 1 /\ i < Len(prevScript.pairs)) =>
             /\ script = mergePairUp(prevScript, At(prevScript.pairs, i).id)
             /\ script = mergePairDown(prevScript, At(prevScript.pairs, i - 1).id)

\* a merge of two rows that differ in content, pinned duration and span was
\* just made, and the script still has rows to merge
C29_Witness ==
  /\ lastOp.op \in {"mergePairUp", "mergePairDown"}
  /\ Len(script.pairs) = Len(prevScript.pairs) - 1
  /\ Len(script.pairs) >= 2
  /\ \E k \in DOMAIN script.pairs :
       /\ script.pairs[k] # prevScript.pairs[k]
       /\ prevScript.pairs[k].text.manualDuration # Undefined

\* ---- C30 ----
\* the row that was split, and the position its visual content was cut at
C30_Index == findIndex(prevScript.pairs, lastOp.id)
C30_Original == At(prevScript.pairs, C30_Index)
C30_SplitPos ==
  RoundDiv(Len(C30_Original.visual.content) * lastOp.val,
           Len(C30_Original.text.content))

\* C30: an effective split never duplicates visual text: the second new row
\* carries the trimmed suffix of the original visual content at the
\* proportional position, and the first new row carries the trimmed prefix,
\* or the whole original content only when the second row's is empty.
C30_SplitNeverDuplicatesVisual ==
  IsEffectiveSplit =>
    LET original == C30_Original.visual.content
        prefix == Trim(Slice(original, 0, C30_SplitPos))
        suffix == Trim(SliceFrom(original, C30_SplitPos))
        first  == At(script.pairs, C30_Index).visual.content
        second == At(script.pairs, C30_Index + 1).visual.content
    IN  /\ second = suffix
        /\ \/ first = prefix
           \/ first = original /\ second = <<>>
====
